---- MODULE Spec2Model ----
(***************************************************************************)
(* GridScaper: poles, conductor spans, catenary curves, ground clearance   *)
(* and the elevation surface behind hAt(x, z).                             *)
(*                                                                         *)
(* Numbers.  JavaScript numbers are modelled in fixed point: every length  *)
(* (x, z, height, elevation, clearance) is an integer count of 1/Scale ft. *)
(* The tension factor is an integer count of thousandths.  A non-finite    *)
(* result (0/0, x/0 fed into an interpolation) is the value NaN; every     *)
(* arithmetic helper propagates it and every comparison with it is FALSE,  *)
(* as in IEEE-754.  A thrown TypeError is the value Throw.                 *)
(***************************************************************************)
EXTENDS Integers, Sequences, FiniteSets, TLC

\* ---------------------------------------------------------------- bounds
Scale == 100
MaxSteps == 5
Samples == 4
MaxRows == 3
MaxTimers == 2

\* ------------------------------------------------------ program constants
MINH == 1
DRAG_SENS_INV == 20
gridSizeY == 100
MAXH == 40
BASE_SAG_PCT == 5
MIN_SAG_TENTHS == 1
maxSize == 50
connectionRange == 15
maxSpanLength == 40
costPerPole == 1500
costPerFoot == 10
defaultTension == 2000
defaultClearanceThreshold == 15
defaultHeight == 20
falloffDistance == 100
defaultPoleHeight == 10
sampleCount == 50

Ft(n) == n * Scale

\* ------------------------------------------------------------- numbers
\* values outside the range any length of the model takes
Infinity == 2^30
NaN == 2^30 + 1
Throw == 2^30 + 2

IsNum(v) == v # NaN /\ v # Throw

NumAdd(a, b) == IF a = NaN \/ b = NaN THEN NaN ELSE a + b
NumSub(a, b) == IF a = NaN \/ b = NaN THEN NaN ELSE a - b
NumLe(a, b) == a # NaN /\ b # NaN /\ a <= b
NumGe(a, b) == a # NaN /\ b # NaN /\ a >= b

Abs(n) == IF n < 0 THEN -n ELSE n
Max2(a, b) == IF a >= b THEN a ELSE b
Min2(a, b) == IF a <= b THEN a ELSE b
SetMin(S) == CHOOSE m \in S : \A n \in S : m <= n
SetMax(S) == CHOOSE m \in S : \A n \in S : m >= n

RECURSIVE SqrtIter(_, _, _)
SqrtIter(n, lo, hi) ==
  IF lo >= hi THEN lo
  ELSE LET mid == (lo + hi + 1) \div 2
       IN IF mid * mid <= n THEN SqrtIter(n, mid, hi) ELSE SqrtIter(n, lo, mid - 1)

\* Math.hypot / Math.sqrt(dx*dx + dz*dz) at fixed-point resolution
Hypot(dx, dz) ==
  IF dx = NaN \/ dz = NaN THEN NaN
  ELSE LET n == dx * dx + dz * dz IN SqrtIter(n, 0, Min2(n, 46340))

\* a * (1 - t) + b * t with t = num / den, as the interpolations compute it.
\* den = 0 makes t non-finite and the weighted sum NaN (the elevations the
\* model draws are >= 0, so Infinity - Infinity or 0 * Infinity arises).
Lerp(a, b, num, den) ==
  IF a = NaN \/ b = NaN \/ num = NaN \/ den = NaN THEN NaN
  ELSE IF den = 0 THEN NaN
  ELSE (a * (den - num) + b * num) \div den

\* ---------------------------------------------------- elevation surfaces
\* A surface value stands for the closure stored in customGround or
\* gisElevationSurface; NoSurface is null.
NoSurface == [kind |-> "none"]

\* customGround built from the URL's poles-distances / poles-elevations
UrlGround(knots, x, z) ==
  LET n == Len(knots)
      localZ == z
      I == {i \in 2..n : NumLe(localZ, knots[i].z)}
  IN IF NumLe(localZ, knots[1].z) THEN knots[1].elev
     ELSE IF NumGe(localZ, knots[n].z) THEN knots[n].elev
     ELSE IF I = {} THEN 0
     ELSE LET i == SetMin(I)
          IN Lerp(knots[i - 1].elev, knots[i].elev,
                  NumSub(localZ, knots[i - 1].z), knots[i].z - knots[i - 1].z)

\* customGround restored by importScene from surface.elevationProfile / bounds
SceneGround(s, x, z) ==
  LET p == s.elevationProfile
      n == Len(p)
      I == {i \in 2..n : NumLe(z, p[i].z)}
  IN IF ~s.hasBounds THEN Throw
     ELSE IF NumLe(z, s.minZ) THEN (IF n = 0 THEN Throw ELSE p[1].elevation)
     ELSE IF NumGe(z, s.maxZ) THEN (IF n = 0 THEN Throw ELSE p[n].elevation)
     ELSE IF I = {} THEN (IF n = 0 THEN Throw ELSE p[n].elevation)
     ELSE LET i == SetMin(I)
          IN Lerp(p[i - 1].elevation, p[i].elevation,
                  NumSub(z, p[i - 1].z), p[i].z - p[i - 1].z)

\* an interpolation that stops at the left point of the bracket
segmentHeightLeft(left, right, x) == left.y

\* getElevationAt of createTerrainFromProfile, over its terrainPoints
segmentHeight(left, right, x) ==
  IF left.x = right.x THEN left.y
  ELSE IF x = NaN THEN NaN
  ELSE left.y + ((right.y - left.y) * (x - left.x)) \div (right.x - left.x)

bracketHeight(tp, I, x) ==
  IF I = {} THEN segmentHeight(tp[1], tp[Len(tp)], x)
  ELSE segmentHeight(tp[SetMin(I)], tp[SetMin(I) + 1], x)

ProfileTerrain(tp, x, z) ==
  bracketHeight(tp, {i \in 1..(Len(tp) - 1) : NumGe(x, tp[i].x) /\ NumLe(x, tp[i + 1].x)}, x)

\* linearInterpolation's scan for the two nearest points: acc is
\* <<minDist1, pole1, minDist2, pole2>>, index 0 standing for null and
\* -1 for Infinity
scanStep(acc, dist, k) ==
  IF dist # NaN /\ (acc[1] = -1 \/ dist < acc[1]) THEN <<dist, k, acc[1], acc[2]>>
  ELSE IF dist # NaN /\ (acc[3] = -1 \/ dist < acc[3]) THEN <<acc[1], acc[2], dist, k>>
  ELSE acc

RECURSIVE NearestTwo(_, _, _, _, _)
NearestTwo(pts, x, z, k, acc) ==
  IF k > Len(pts) THEN acc
  ELSE NearestTwo(pts, x, z, k + 1,
         scanStep(acc, Hypot(NumSub(x, pts[k].x), NumSub(z, pts[k].z)), k))

RECURSIVE SumElev(_, _)
SumElev(pts, k) == IF k = 0 THEN 0 ELSE pts[k].elevation + SumElev(pts, k - 1)

\* the blend of linearInterpolation once the scan is done: pole1 at
\* distance m1 with elevation e1, pole2 (0 for null) at m2 with e2
blendNearest(m1, e1, pole2, m2, e2, defaultElev, falloff) ==
  IF m1 < Scale \div 10 THEN e1
  ELSE IF m1 > falloff
    THEN defaultElev + ((e1 - defaultElev) * Max2(0, falloff - (m1 - falloff))) \div falloff
  ELSE IF pole2 = 0 \/ m2 > falloff
    THEN defaultElev + ((e1 - defaultElev) * (falloff - m1)) \div falloff
  ELSE IF m1 + m2 < Scale \div 10 THEN e1
  ELSE (e1 * m2 + e2 * m1) \div (m1 + m2)

blendScan(nt, sortedPoles, defaultElev, falloff) ==
  IF nt[2] = 0 THEN defaultElev
  ELSE blendNearest(nt[1], sortedPoles[nt[2]].elevation, nt[4], nt[3],
                    IF nt[4] = 0 THEN 0 ELSE sortedPoles[nt[4]].elevation,
                    defaultElev, falloff)

linearInterpolation(x, z, sortedPoles, defaultElev, falloff) ==
  blendScan(NearestTwo(sortedPoles, x, z, 1, <<-1, 0, -1, 0>>),
            sortedPoles, defaultElev, falloff)

\* the sort by distance from the origin (insertion keeps equal keys in order)
RECURSIVE SortByOrigin(_)
SortByOrigin(pts) ==
  IF Len(pts) <= 1 THEN pts
  ELSE LET rest == SortByOrigin(Tail(pts))
           h == Head(pts)
           key(p) == Hypot(p.x, p.z)
           before == SelectSeq(rest, LAMBDA p : key(p) < key(h))
           after == SelectSeq(rest, LAMBDA p : key(p) >= key(h))
       IN before \o <<h>> \o after

\* the closure createElevationSurface returns (interpolationMethod 'linear')
GisSurface(pts, x, z) ==
  IF Len(pts) = 0 THEN 0
  ELSE IF Len(pts) = 1 THEN pts[1].elevation
  ELSE linearInterpolation(x, z, SortByOrigin(pts),
                           SumElev(pts, Len(pts)) \div Len(pts), Ft(falloffDistance))

EvalSurface(s, x, z) ==
  CASE s.kind = "url" -> UrlGround(s.knots, x, z)
    [] s.kind = "scene" -> SceneGround(s, x, z)
    [] s.kind = "gis" -> GisSurface(s.pts, x, z)
    [] s.kind = "elevationProfile" -> ProfileTerrain(s.pts, x, z)
    [] OTHER -> 0

calculateTerrainHeight(x, z) == 0

\* the height a slot's closure gives, the procedural height where both
\* slots are null
surfaceHeight(s, x, z) ==
  IF s = NoSurface THEN calculateTerrainHeight(x, z) ELSE EvalSurface(s, x, z)

\* hAt with the two slots consulted in the other order
hAtCustomFirst(gis, custom, x, z) ==
  surfaceHeight(IF custom # NoSurface THEN custom ELSE gis, x, z)

\* hAt: window.gisElevationSurface first, then customGround
hAtOf(gis, custom, x, z) ==
  surfaceHeight(IF gis # NoSurface THEN gis ELSE custom, x, z)

\* ------------------------------------------------------- conductor curve
crossarmPositions == <<-((12 * Scale) \div 10), 0, (12 * Scale) \div 10>>

\* tensionFactor of drawSpan / checkClearances, in thousandths:
\* (currentTension - 500) / (5000 - 500) * (5.0 - 0.2) + 0.2
tensionFactor(currentTension) == ((currentTension - 500) * 4800) \div 4500 + 200

\* baseSag = Math.max(MIN_SAG, d * BASE_SAG_FACTOR) / tension
baseSagOf(d, tensionK) ==
  IF d = NaN \/ tensionK = 0 THEN NaN
  ELSE (Max2((MIN_SAG_TENTHS * Scale) \div 10, (d * BASE_SAG_PCT) \div 100) * 1000) \div tensionK

\* The catenary parameter.  cosh is carried to second order, where
\* a * (cosh(L/(2a)) - 1) = s gives a = L*L / (8*s), the solver's own seed;
\* the Newton correction lies below the model's resolution.  A zero span
\* makes the first iterate L/(2a) = 0/0, and every later one, NaN.
solveCatenaryParameter(span, targetSag) ==
  IF span = NaN \/ targetSag = NaN THEN NaN
  ELSE IF span = 0 \/ targetSag = 0 THEN NaN
  ELSE LET a == (span * span) \div (8 * targetSag)
       IN IF a = 0 THEN NaN ELSE a

\* One call of solveCatenaryParameter followed statement by statement: the
\* estimate a, the number i of Newton-Raphson updates made, and the statement
\* reached (the loop, the return of aNew on convergence, the return of a
\* after the loop).
maxIterations == 20
NoSolver == [pc |-> "idle", span |-> 0, targetSag |-> 0, a |-> 0, i |-> 0, result |-> 0]

\* let a = (span * span) / (8 * targetSag): 0 / 0 is NaN, and the Infinity
\* of a zero sag becomes NaN at the first update
seedOf(span, targetSag) ==
  IF span = NaN \/ targetSag = NaN \/ targetSag = 0 THEN NaN
  ELSE (span * span) \div (8 * targetSag)

solverCall(span, targetSag) ==
  [pc |-> "loop", span |-> span, targetSag |-> targetSag,
   a |-> seedOf(span, targetSag), i |-> 0, result |-> 0]

\* aNew = a - f / df with x = halfSpan / a, cosh and sinh carried to second
\* order: f = a * (cosh(x) - 1) - targetSag = span^2 / (8a) - targetSag and
\* df = cosh(x) - 1 - x * sinh(x) = -x^2 / 2.  a = 0 makes x and then aNew
\* non-finite.
newtonUpdate(a, span, targetSag) ==
  IF a = NaN \/ span = NaN \/ targetSag = NaN \/ a = 0 \/ span = 0 THEN NaN
  ELSE a + ((((8 * ((span * span) \div (8 * a) - targetSag)) * a) \div span) * a) \div span

\* Math.abs(aNew - a) < tolerance, tolerance = 0.001
converged(aNew, a) == aNew # NaN /\ a # NaN /\ Abs(aNew - a) * 1000 < Scale

\* the loop's condition running one pass too many
loopOnceMore(s) == s.i <= maxIterations

\* for (let i = 0; i < maxIterations; i++)
loopContinues(s) == s.i < maxIterations

\* one pass of the loop, aNew being the update of s.a
passWith(s, aNew) ==
  IF converged(aNew, s.a)
    THEN [s EXCEPT !.pc = "return aNew", !.result = aNew, !.i = @ + 1]
    ELSE [s EXCEPT !.a = aNew, !.i = @ + 1]

newtonPass(s) == passWith(s, newtonUpdate(s.a, s.span, s.targetSag))

\* return a, after the loop
returnEstimate(s) == [s EXCEPT !.pc = "return a", !.result = s.a]

\* a * (cosh((d/2)/a) - cosh(localX/a)) at sample i of n, to second order:
\* ((d/2)^2 - localX^2) / (2a) with localX = (i/n - 1/2) * d
catenaryY(a, d, i, n) ==
  IF a = NaN \/ d = NaN THEN NaN
  ELSE (d * d * i * (n - i)) \div (n * n * 2 * a)

\* start + (end - start) * t for sample i of n, the lateral offset added to
\* both ends: perp * lateralOffset, where dirLength = 0 gives 0 / 0
offsetLerp(from, to, perpNum, dirLength, lateralOffset, i, n) ==
  IF dirLength = 0 THEN NaN
  ELSE from + (perpNum * lateralOffset) \div dirLength + ((to - from) * i) \div n

\* y = straightLineHeight - catenaryY
heightAt(crossarmHeightA, crossarmHeightB, dip, i, n) ==
  IF crossarmHeightA = NaN \/ crossarmHeightB = NaN THEN NaN
  ELSE NumSub(crossarmHeightA + ((crossarmHeightB - crossarmHeightA) * i) \div n, dip)

\* one point of getConductorCurve, d being Math.hypot(dx, dz)
curvePointAt(poleA, poleB, d, tensionK, n, lateralOffset, i) ==
  [x |-> offsetLerp(poleA.x, poleB.x, -(poleB.z - poleA.z), d, lateralOffset, i, n),
   y |-> heightAt(NumAdd(poleA.base, poleA.h), NumAdd(poleB.base, poleB.h),
                  catenaryY(solveCatenaryParameter(d, baseSagOf(d, tensionK)), d, i, n), i, n),
   z |-> offsetLerp(poleA.z, poleB.z, poleB.x - poleA.x, d, lateralOffset, i, n)]

curvePoint(poleA, poleB, tensionK, n, lateralOffset, i) ==
  curvePointAt(poleA, poleB, Hypot(poleB.x - poleA.x, poleB.z - poleA.z),
               tensionK, n, lateralOffset, i)

getConductorCurve(poleA, poleB, tensionK, n, lateralOffset) ==
  [k \in 1..(n + 1) |-> curvePoint(poleA, poleB, tensionK, n, lateralOffset, k - 1)]

\* drawSpan: three conductor lines; a / b are the end objects' meshes, 0
\* where the end has no obj (the substation and customer points)
drawSpan(a, b, currentTension) ==
  [c \in 1..3 |->
     [a |-> a.obj, b |-> b.obj,
      pts |-> getConductorCurve(a, b, tensionFactor(currentTension), Samples,
                                crossarmPositions[c])]]

\* ------------------------------------------------------------- the scene
\* A pole object { x, z, h, base, obj } lives in heap under its identity;
\* its mesh obj is created with it and is identified with the same id.
\* poles holds ids, a span holds the ids of the two pole objects it refers to.
Pole(heap, id) ==
  [x |-> heap[id].x, z |-> heap[id].z, h |-> heap[id].h, base |-> heap[id].base,
   obj |-> id]

\* substationPoint / customerPoint of rebuild: copies without obj
BuildingPoint(b) == [x |-> b.x, z |-> b.z, h |-> b.h, base |-> b.base, obj |-> 0]

NoBuilding == [x |-> 0, z |-> 0, h |-> 0, base |-> 0]

RECURSIVE drawSpans(_, _, _, _)
drawSpans(heap, spans, currentTension, k) ==
  IF k > Len(spans) THEN <<>>
  ELSE drawSpan(Pole(heap, spans[k].a), Pole(heap, spans[k].b), currentTension)
         \o drawSpans(heap, spans, currentTension, k + 1)

\* a range test on the first pole instead of the last
firstPoleInRange(heap, poles, ch) ==
  Hypot(heap[poles[1]].x - ch.customerBuilding.x, heap[poles[1]].z - ch.customerBuilding.z)
    <= Ft(connectionRange)

shouldPower(heap, poles, ch) ==
  LET lastPole == heap[poles[Len(poles)]]
  IN Hypot(lastPole.x - ch.customerBuilding.x, lastPole.z - ch.customerBuilding.z)
       <= Ft(connectionRange)

\* checkIfCustomerPowered: the new value of challengeState.isPowered
checkIfCustomerPowered(heap, poles, ch) ==
  IF ~ch.active \/ Len(poles) = 0 THEN FALSE ELSE shouldPower(heap, poles, ch)

RECURSIVE conductorLength(_, _, _)
conductorLength(heap, poles, i) ==
  IF i < 2 THEN 0
  ELSE Hypot(heap[poles[i]].x - heap[poles[i - 1]].x, heap[poles[i]].z - heap[poles[i - 1]].z)
         + conductorLength(heap, poles, i - 1)

RECURSIVE poleCost(_, _, _)
poleCost(heap, poles, i) ==
  IF i = 0 THEN 0
  ELSE (costPerPole * heap[poles[i]].h) \div 20 + poleCost(heap, poles, i - 1)

\* updateChallengeStats: UIState.challengeSpent, in dollars / Scale
totalSpent(heap, poles, ch) ==
  LET first == heap[poles[1]]
      last == heap[poles[Len(poles)]]
      sub == IF Len(poles) > 0
               THEN Hypot(first.x - ch.substationBuilding.x, first.z - ch.substationBuilding.z)
               ELSE 0
      cust == IF ch.isPowered /\ Len(poles) > 0
                THEN Hypot(last.x - ch.customerBuilding.x, last.z - ch.customerBuilding.z)
                ELSE 0
  IN poleCost(heap, poles, Len(poles))
       + (conductorLength(heap, poles, Len(poles)) + sub + cust) * costPerFoot

\* ------------------------------------------------------- checkClearances
hAt(st, x, z) == hAtOf(st.gisElevationSurface, st.customGround, x, z)

IsPole(poles, obj) == \E i \in 1..Len(poles) : poles[i] = obj

\* keys of spanGroups: the lines whose userData.a and userData.b are set
spanGroups(lines) ==
  {<<lines[i].a, lines[i].b>> : i \in {j \in 1..Len(lines) : lines[j].a # 0 /\ lines[j].b # 0}}

clearanceToGround(st, p) == NumSub(p.y, hAt(st, p.x, p.z))

MinOf(S) == IF S = {} THEN Infinity ELSE SetMin(S)

\* minClearance after the scan of every point of every line of the group;
\* a NaN clearance never passes "clearanceToGround < minClearance"
groupMinClearance(st, lines, key) ==
  MinOf({clearanceToGround(st, lines[i].pts[k]) :
           i \in {j \in 1..Len(lines) : <<lines[j].a, lines[j].b>> = key},
           k \in 1..(Samples + 1)} \ {NaN})

\* the first point whose clearance cl[k] is the minimum val, if any is
minimumPoint(pts, cl, val) ==
  LET K == {k \in DOMAIN cl : cl[k] = val}
  IN IF K = {} THEN [found |-> FALSE, clearance |-> Infinity, point |-> pts[1]]
     ELSE [found |-> TRUE, clearance |-> val, point |-> pts[SetMin(K)]]

minimumOver(pts, cl) ==
  minimumPoint(pts, cl, MinOf({cl[k] : k \in DOMAIN cl} \ {NaN}))

centerClearance(st, pts) ==
  minimumOver(pts, [k \in DOMAIN pts |-> clearanceToGround(st, pts[k])])

\* minClearancePoint / minClearanceValue over the recomputed centre conductor
centerMinimum(st, key) ==
  centerClearance(st,
    getConductorCurve(Pole(st.heap, key[1]), Pole(st.heap, key[2]),
                      tensionFactor(st.UIState.currentTension), Samples, 0))

\* the groups the loop does not skip: both meshes belong to poles
checkedGroups(st, lines) ==
  {key \in spanGroups(lines) : IsPole(st.poles, key[1]) /\ IsPole(st.poles, key[2])}

\* the indicator lines created: minClearanceValue < threshold
createdIndicators(found, threshold) ==
  {[a |-> m.a, b |-> m.b, point |-> m.min.point, clearance |-> m.min.clearance] :
     m \in {c \in found : c.min.found /\ c.min.clearance < threshold}}

\* the outcome of the loop, flagged being the groups that set hasIssues
flagGroups(st, flagged) ==
  [st EXCEPT !.flaggedGroups = flagged,
             !.indicators =
                createdIndicators({[a |-> key[1], b |-> key[2], min |-> centerMinimum(st, key)] :
                                     key \in flagged},
                                  st.UIState.clearanceThreshold),
             !.warning = flagged # {}]

\* a check that flags the groups above the threshold
checkClearancesAbove(st) ==
  flagGroups(st, {key \in checkedGroups(st, st.lines) :
                    groupMinClearance(st, st.lines, key) > st.UIState.clearanceThreshold})

checkClearances(st) ==
  flagGroups(st, {key \in checkedGroups(st, st.lines) :
                    groupMinClearance(st, st.lines, key) < st.UIState.clearanceThreshold})

\* ---------------------------------------------------------------- rebuild
updateChallengeStats(st) ==
  IF ~st.challengeState.active THEN st
  ELSE [st EXCEPT !.UIState.challengeSpent = totalSpent(st.heap, st.poles, st.challengeState),
                  !.challengeState.isPowered =
                     checkIfCustomerPowered(st.heap, st.poles, st.challengeState)]

rebuild(st) ==
  LET ch == st.challengeState
      T == st.UIState.currentTension
      cleared == [st EXCEPT !.lines = <<>>, !.indicators = {}]
      power == shouldPower(st.heap, st.poles, ch)
      drawn ==
        (IF ch.active
           THEN drawSpan(BuildingPoint(ch.substationBuilding), Pole(st.heap, st.poles[1]), T)
           ELSE <<>>)
        \o drawSpans(st.heap, st.spans, T, 1)
        \o (IF ch.active /\ power
              THEN drawSpan(Pole(st.heap, st.poles[Len(st.poles)]),
                            BuildingPoint(ch.customerBuilding), T)
              ELSE <<>>)
  IN IF Len(st.poles) = 0 THEN updateChallengeStats(cleared)
     ELSE updateChallengeStats(checkClearances(
            [cleared EXCEPT !.lines = drawn,
                            !.challengeState.isPowered = IF ch.active THEN power ELSE ch.isPowered]))

\* ---------------------------------------------------------------- history
\* a capture that advances currentIndex also when the oldest state is dropped
captureAdvancing(st) ==
  LET h == st.history
      state == [i \in 1..Len(st.poles) |->
                  [x |-> st.heap[st.poles[i]].x, z |-> st.heap[st.poles[i]].z,
                   h |-> st.heap[st.poles[i]].h, base |-> st.heap[st.poles[i]].base]]
      pushed == Append(SubSeq(h.states, 1, h.currentIndex + 1), state)
  IN [st EXCEPT !.history =
        [states |-> IF Len(pushed) > maxSize THEN Tail(pushed) ELSE pushed,
         currentIndex |-> h.currentIndex + 1]]

captureState(st) ==
  LET h == st.history
      state == [i \in 1..Len(st.poles) |->
                  [x |-> st.heap[st.poles[i]].x, z |-> st.heap[st.poles[i]].z,
                   h |-> st.heap[st.poles[i]].h, base |-> st.heap[st.poles[i]].base]]
      kept == IF h.currentIndex < Len(h.states) - 1
                THEN SubSeq(h.states, 1, h.currentIndex + 1) ELSE h.states
      pushed == Append(kept, state)
  IN [st EXCEPT !.history =
        IF Len(pushed) > maxSize
          THEN [states |-> Tail(pushed), currentIndex |-> h.currentIndex]
          ELSE [states |-> pushed, currentIndex |-> h.currentIndex + 1]]

canUndo(h) == h.currentIndex > 0
canRedo(h) == h.currentIndex < Len(h.states) - 1

\* identities some object or mesh reference of the program still carries
UsedIds(st) ==
  DOMAIN st.heap
    \cup {st.lines[i].a : i \in 1..Len(st.lines)} \cup {st.lines[i].b : i \in 1..Len(st.lines)}
    \cup {m.a : m \in st.indicators} \cup {m.b : m \in st.indicators}
    \cup {st.drag.obj, st.UIState.conductorStartPole}

\* ids for n new objects: the smallest ones not in use
RECURSIVE NewIds(_, _)
NewIds(used, n) ==
  IF n = 0 THEN <<>>
  ELSE LET id == CHOOSE i \in 1..(Cardinality(used) + 1) : i \notin used
       IN <<id>> \o NewIds(used \cup {id}, n - 1)

restoreState(st, state) ==
  LET ids == NewIds(UsedIds(st), Len(state))
      fresh == [i \in {ids[k] : k \in 1..Len(ids)} |->
                  state[CHOOSE k \in 1..Len(ids) : ids[k] = i]]
  IN rebuild([st EXCEPT !.poles = ids,
                        !.heap = [i \in DOMAIN st.heap \cup DOMAIN fresh |->
                                    IF i \in DOMAIN fresh THEN fresh[i] ELSE st.heap[i]]])

undo(st) ==
  IF ~canUndo(st.history) THEN st
  ELSE restoreState([st EXCEPT !.history.currentIndex = @ - 1],
                    st.history.states[st.history.currentIndex])

redo(st) ==
  IF ~canRedo(st.history) THEN st
  ELSE restoreState([st EXCEPT !.history.currentIndex = @ + 1],
                    st.history.states[st.history.currentIndex + 2])

clear(st) == [st EXCEPT !.history = [states |-> <<>>, currentIndex |-> -1]]

\* ------------------------------------------------------- scene editing
NoPoint == [x |-> NaN, z |-> NaN]
NoDrag == [obj |-> 0, mode |-> "position", startHeight |-> 0]

SpanMatches(s, a, b) == (s.a = a /\ s.b = b) \/ (s.a = b /\ s.b = a)
hasSpan(spans, a, b) == \E i \in 1..Len(spans) : SpanMatches(spans[i], a, b)

addSpan(st, poleA, poleB) ==
  IF hasSpan(st.spans, poleA, poleB) THEN st
  ELSE captureState(rebuild([st EXCEPT !.spans = Append(@, [a |-> poleA, b |-> poleB])]))

RemoveAt(seq, i) == SubSeq(seq, 1, i - 1) \o SubSeq(seq, i + 1, Len(seq))

removeSpan(st, poleA, poleB) ==
  LET I == {i \in 1..Len(st.spans) : SpanMatches(st.spans[i], poleA, poleB)}
  IN IF I = {} THEN st
     ELSE captureState(rebuild([st EXCEPT !.spans = RemoveAt(@, SetMin(I))]))

\* the span-length limit of challenge mode: TRUE when addPole refuses
spanTooLong(st, x, z) ==
  LET ch == st.challengeState
      last == st.heap[st.poles[Len(st.poles)]]
      checkPoint == IF Len(st.poles) > 0 THEN [x |-> last.x, z |-> last.z]
                    ELSE [x |-> ch.substationBuilding.x, z |-> ch.substationBuilding.z]
  IN ch.active /\ Hypot(x - checkPoint.x, z - checkPoint.z) > Ft(maxSpanLength)

addPole(st, x, z, h) ==
  IF \E i \in 1..Len(st.poles) : st.heap[st.poles[i]].x = x /\ st.heap[st.poles[i]].z = z
    THEN st
  ELSE IF spanTooLong(st, x, z) THEN st
  ELSE LET id == NewIds(UsedIds(st), 1)[1]
           pole == [x |-> x, z |-> z, h |-> h, base |-> hAt(st, x, z)]
       IN captureState(updateChallengeStats(rebuild(
            [st EXCEPT !.heap = [i \in DOMAIN st.heap \cup {id} |->
                                   IF i = id THEN pole ELSE st.heap[i]],
                       !.poles = Append(@, id)])))

removePole(st, obj) ==
  IF ~IsPole(st.poles, obj) THEN st
  ELSE captureState(updateChallengeStats(rebuild(
         [st EXCEPT !.spans = SelectSeq(@, LAMBDA s : s.a # obj /\ s.b # obj),
                    !.poles = SelectSeq(@, LAMBDA p : p # obj)])))

handleConductorToolClick(st, poleObj) ==
  LET startPole == st.UIState.conductorStartPole
  IN IF ~IsPole(st.poles, poleObj) THEN st
     ELSE IF startPole = 0 THEN [st EXCEPT !.UIState.conductorStartPole = poleObj]
     ELSE IF startPole = poleObj THEN [st EXCEPT !.UIState.conductorStartPole = 0]
     ELSE IF hasSpan(st.spans, startPole, poleObj)
       THEN [removeSpan(st, startPole, poleObj) EXCEPT !.UIState.conductorStartPole = 0]
     ELSE [addSpan(st, startPole, poleObj) EXCEPT !.UIState.conductorStartPole = poleObj]

\* the pole branch of handleToolClick after addPole has returned: with the
\* conductor tool active the former last pole is joined to poles[length - 1]
connectNewPole(added, connect, lastPole) ==
  IF connect THEN addSpan(added, lastPole, added.poles[Len(added.poles)]) ELSE added

\* handleToolClick: hoverPt is the snapped terrain point under the pointer,
\* pPick the pole mesh picked (the nearest within the click radius in
\* conductor-only mode), spanHit the index of the conductor line hit; 0 = none
handleToolClick(st, hoverPt, pPick, spanHit) ==
  LET ui == st.UIState
      lastPole == IF Len(st.poles) > 0 THEN st.poles[Len(st.poles)] ELSE 0
  IN IF ui.eraserToolActive
       THEN IF pPick # 0 THEN removePole(st, pPick)
            ELSE IF spanHit # 0 /\ IsPole(st.poles, st.lines[spanHit].a)
                                /\ IsPole(st.poles, st.lines[spanHit].b)
              THEN removeSpan(st, st.lines[spanHit].a, st.lines[spanHit].b)
            ELSE st
     ELSE IF ui.conductorToolActive /\ ~ui.poleToolActive
       THEN IF pPick # 0 THEN handleConductorToolClick(st, pPick) ELSE st
     ELSE IF ui.poleToolActive /\ hoverPt # NoPoint
       THEN IF hAt(st, hoverPt.x, hoverPt.z) = Throw THEN st
            ELSE connectNewPole(addPole(st, hoverPt.x, hoverPt.z, Ft(ui.currentHeight)),
                           ui.conductorToolActive /\ lastPole # 0, lastPole)
     ELSE st

\* ------------------------------------------------------- pointer handlers
SNAP(v) == ((2 * v + Scale) \div (2 * Scale)) * Scale

\* the raycast of the pointer against window.terrain finds a point
OnTerrain(t, pt) ==
  /\ 2 * Abs(pt.x) <= t.width
  /\ 2 * (pt.z - t.posZ) <= t.depth
  /\ 2 * (t.posZ - pt.z) <= t.depth

pointerdown(st, pPick, altKey) ==
  IF pPick = 0 \/ st.UIState.eraserToolActive THEN st
  ELSE [st EXCEPT !.drag = [obj |-> pPick, mode |-> IF altKey THEN "height" ELSE "position",
                            startHeight |-> st.heap[pPick].h]]

\* hit is the terrain point under the pointer (NoPoint when the ray misses),
\* deltaY the pointer's vertical travel since pointerdown, in pixels
pointermove(st, hit, deltaY) ==
  LET id == st.drag.obj
      newHeight == Max2(Ft(MINH), Min2(Ft(MAXH), st.drag.startHeight + (deltaY * Scale) \div DRAG_SENS_INV))
      moved ==
        IF st.drag.mode = "position"
          THEN IF hit = NoPoint THEN st
               ELSE [st EXCEPT !.heap[id].x = SNAP(hit.x), !.heap[id].z = SNAP(hit.z),
                               !.heap[id].base = hAt(st, SNAP(hit.x), SNAP(hit.z))]
          ELSE [st EXCEPT !.heap[id].h = SNAP(newHeight)]
  IN IF id = 0 \/ ~IsPole(st.poles, id) THEN st ELSE rebuild(moved)

pointerup(st) ==
  IF st.drag.obj # 0 THEN captureState([st EXCEPT !.drag = NoDrag]) ELSE st

\* ------------------------------------------------------------ UI controls
tensionSliderInput(st, value) == rebuild([st EXCEPT !.UIState.currentTension = value])

clearanceThresholdInput(st, value) ==
  checkClearances([st EXCEPT !.UIState.clearanceThreshold = value])

resetScene(st) ==
  clear([st EXCEPT !.poles = <<>>, !.spans = <<>>, !.lines = <<>>, !.warning = FALSE])

\* buildTerrain: the plane's width, depth and position.z, from the z of the
\* poles handed to it
buildTerrain(zs) ==
  LET terrainDepth == Max2(gridSizeY, IF zs = {} THEN 0 ELSE SetMax(zs) \div Scale + 40)
  IN [width |-> Ft(IF zs = {} THEN 100 ELSE 20), depth |-> Ft(terrainDepth),
      posZ |-> Ft(terrainDepth) \div 2 - Ft(20)]

\* ---------------------------------------------------------- challenge mode
enterChallengeMode(st) ==
  IF st.challengeState.active THEN st
  ELSE LET r == resetScene([st EXCEPT !.indicators = {}])
           minZ == r.terrain.posZ - r.terrain.depth \div 2
           maxZ == r.terrain.posZ + r.terrain.depth \div 2
           substationZ == minZ + Ft(5)
           customerZ == maxZ - Ft(4)
           ch == [active |-> TRUE, isPowered |-> FALSE,
                  substationBuilding |-> [x |-> 0, z |-> substationZ, h |-> Ft(12),
                                          base |-> hAt(r, 0, substationZ)],
                  customerBuilding |-> [x |-> 0, z |-> customerZ, h |-> Ft(8),
                                        base |-> hAt(r, 0, customerZ)]]
       IN captureState(clear(updateChallengeStats(
            [r EXCEPT !.challengeState = ch, !.UIState.challengeSpent = 0])))

exitChallengeMode(st) ==
  IF ~st.challengeState.active THEN st
  ELSE resetScene([st EXCEPT !.indicators = {},
                             !.challengeState = [active |-> FALSE, isPowered |-> FALSE,
                                                 substationBuilding |-> NoBuilding,
                                                 customerBuilding |-> NoBuilding]])

\* checkChallengeSolution: the issues listed by the alert, none of them
\* meaning the success summary; checked is the scene after checkClearances()
challengeBudget == 5500
NoAlert == [shown |-> FALSE, issues |-> {}]

solutionIssues(checked) ==
  LET ps == checked.poles
      sub == checked.challengeState.substationBuilding
  IN (IF ~checked.challengeState.isPowered THEN {"not powered"} ELSE {})
     \cup (IF Len(ps) = 0 THEN {"no poles"} ELSE {})
     \cup (IF Len(ps) > 0 /\ Hypot(checked.heap[ps[1]].x - sub.x, checked.heap[ps[1]].z - sub.z)
                               > Ft(maxSpanLength)
             THEN {"first pole too far"} ELSE {})
     \cup (IF \E i \in 2..Len(ps) :
                 Hypot(checked.heap[ps[i]].x - checked.heap[ps[i - 1]].x,
                       checked.heap[ps[i]].z - checked.heap[ps[i - 1]].z) > Ft(maxSpanLength)
             THEN {"span too long"} ELSE {})
     \cup (IF checked.UIState.challengeSpent > Ft(challengeBudget) THEN {"over budget"} ELSE {})
     \cup (IF checked.warning THEN {"clearance"} ELSE {})

solutionReport(checked) ==
  [scene |-> checked, alert |-> [shown |-> TRUE, issues |-> solutionIssues(checked)]]

checkChallengeSolution(st) ==
  IF ~st.challengeState.active THEN [scene |-> st, alert |-> NoAlert]
  ELSE solutionReport(checkClearances(st))

\* the click listener setupToolPanel puts on the four tool buttons
\* a tool panel that toggles the tool clicked and nothing else
toolButtonToggle(st, tool) ==
  [st EXCEPT !.UIState =
     CASE tool = "pole" -> [@ EXCEPT !.poleToolActive = ~@]
       [] tool = "conductor" -> [@ EXCEPT !.conductorToolActive = ~@]
       [] tool = "inspect" -> [@ EXCEPT !.inspectToolActive = ~@]
       [] OTHER -> [@ EXCEPT !.eraserToolActive = ~@]]

\* a tool panel whose eraser and inspect buttons leave the other tools alone
toolButtonTogether(st, tool) ==
  [st EXCEPT !.UIState =
     CASE tool = "pole" -> [@ EXCEPT !.poleToolActive = TRUE]
       [] tool = "conductor" -> [@ EXCEPT !.conductorToolActive = TRUE]
       [] tool = "inspect" -> [@ EXCEPT !.inspectToolActive = TRUE]
       [] OTHER -> [@ EXCEPT !.eraserToolActive = TRUE]]

toolButtonClick(st, tool) ==
  LET ui == st.UIState
      only(name) ==
        [ui EXCEPT !.poleToolActive = FALSE, !.conductorToolActive = FALSE,
                   !.inspectToolActive = (name = "inspect"),
                   !.eraserToolActive = (name = "eraser")]
      toggled ==
        IF tool = "pole"
          THEN [ui EXCEPT !.eraserToolActive = FALSE, !.inspectToolActive = FALSE,
                          !.poleToolActive = ~ui.poleToolActive]
          ELSE [ui EXCEPT !.eraserToolActive = FALSE, !.inspectToolActive = FALSE,
                          !.conductorToolActive = ~ui.conductorToolActive,
                          !.conductorStartPole = IF ui.conductorToolActive THEN 0 ELSE @]
  IN [st EXCEPT !.UIState =
        CASE tool = "eraser" ->
               IF ui.eraserToolActive
                 THEN [ui EXCEPT !.eraserToolActive = FALSE, !.poleToolActive = TRUE]
                 ELSE only("eraser")
          [] tool = "inspect" ->
               IF ui.inspectToolActive
                 THEN [ui EXCEPT !.inspectToolActive = FALSE, !.poleToolActive = TRUE]
                 ELSE only("inspect")
          [] OTHER ->
               IF ~toggled.poleToolActive /\ ~toggled.conductorToolActive
                 THEN [toggled EXCEPT !.poleToolActive = TRUE]
                 ELSE toggled]

\* ----------------------------------------------------------------- imports
\* A scene file is what JSON.parse returns for it: poles, the surface section
\* (surfaceKind "absent" when terrain / surface is missing or version is
\* "1.0", "null" when hasCustomGround or elevationProfile is falsy,
\* "profile" otherwise) and the two settings read here.
RECURSIVE pushPoles(_, _, _)
pushPoles(st, data, k) ==
  IF k > Len(data) THEN st
  ELSE LET id == NewIds(UsedIds(st), 1)[1]
           pole == [x |-> data[k].x, z |-> data[k].z, h |-> data[k].height,
                    base |-> data[k].elevation]
       IN pushPoles([st EXCEPT !.heap = [i \in DOMAIN st.heap \cup {id} |->
                                           IF i = id THEN pole ELSE st.heap[i]],
                               !.poles = Append(@, id)],
                    data, k + 1)

PoleZs(data) == {data[k].z : k \in 1..Len(data)}

\* a number JSON cannot write (NaN) is null in the file, which is no number
validateSceneData(file) ==
  \A k \in 1..Len(file.poles) :
    /\ IsNum(file.poles[k].x) /\ IsNum(file.poles[k].z) /\ IsNum(file.poles[k].elevation)
    /\ file.poles[k].height >= Ft(1) /\ file.poles[k].height <= Ft(100)

\* the customGround importScene leaves: the closure over the file's
\* elevationProfile and bounds, null, or the one it found
restoredGround(file, current) ==
  IF file.surfaceKind = "absent" THEN current
  ELSE IF file.surfaceKind = "profile"
    THEN [kind |-> "scene", hasBounds |-> file.hasBounds,
          minZ |-> file.minZ, maxZ |-> file.maxZ,
          elevationProfile |-> file.elevationProfile]
  ELSE NoSurface

\* importScene's try block from resetScene to the terrain mesh built for the
\* file's poles
importStart(st, file) ==
  LET r == resetScene(st)
  IN [r EXCEPT !.customGround = restoredGround(file, r.customGround),
               !.terrain = IF Len(file.poles) > 0
                             THEN buildTerrain(PoleZs(file.poles)) ELSE @]

\* buildTerrain asks hAt for the height of every vertex of the mesh, and the
\* call throws
terrainThrows(started, file) ==
  Len(file.poles) > 0 /\ hAt(started, 0, started.terrain.posZ) = Throw

\* the rest of the try block: the poles, the settings, the rebuild
importPoles(started, file) ==
  LET placed == pushPoles(started, file.poles, 1)
      set == [placed EXCEPT
                !.UIState.currentTension = IF file.hasTension THEN file.tension ELSE @,
                !.UIState.clearanceThreshold =
                   IF file.hasClearanceThreshold THEN file.clearanceThreshold ELSE @]
  IN captureState(checkClearances(rebuild(set)))

\* an exception leaves the try block for the catch clause, which reports it
importFrom(started, file) ==
  IF terrainThrows(started, file) THEN started ELSE importPoles(started, file)

importScene(st, file) ==
  IF ~validateSceneData(file) THEN st ELSE importFrom(importStart(st, file), file)

\* importScene shows 'Error importing scene' for the file
importReportsError(st, file) ==
  ~validateSceneData(file) \/ terrainThrows(importStart(st, file), file)

\* exportScene: the scene data written to the downloaded file, in the form
\* importScene reads it
sceneData(st, hasProfile, minZ, maxZ) ==
  [exported |-> TRUE,
   poles |-> [k \in 1..Len(st.poles) |->
                [x |-> st.heap[st.poles[k]].x, z |-> st.heap[st.poles[k]].z,
                 height |-> st.heap[st.poles[k]].h, elevation |-> st.heap[st.poles[k]].base]],
   surfaceKind |-> IF hasProfile THEN "profile" ELSE "null",
   hasBounds |-> hasProfile, minZ |-> minZ, maxZ |-> maxZ,
   elevationProfile |->
     IF hasProfile
       THEN [i \in 1..(sampleCount + 1) |->
               [z |-> minZ + ((maxZ - minZ) * (i - 1)) \div sampleCount,
                elevation |-> hAt(st, 0, minZ + ((maxZ - minZ) * (i - 1)) \div sampleCount)]]
     ELSE <<>>,
   hasTension |-> TRUE, tension |-> st.UIState.currentTension,
   hasClearanceThreshold |-> TRUE, clearanceThreshold |-> st.UIState.clearanceThreshold]

\* no file is written when sampling the ground throws
writtenFile(data, old) ==
  IF \E i \in 1..Len(data.elevationProfile) : data.elevationProfile[i].elevation = Throw
    THEN old ELSE data

exportScene(st, old) ==
  IF Len(st.poles) > 0 /\ st.customGround # NoSurface
    THEN writtenFile(sceneData(st, TRUE, SetMin({st.heap[st.poles[k]].z : k \in 1..Len(st.poles)}),
                               SetMax({st.heap[st.poles[k]].z : k \in 1..Len(st.poles)})), old)
  ELSE sceneData(st, FALSE, 0, 0)

\* gisData is what the GIS dialog hands over: the converted poles and the
\* surface createElevationSurface built over them
handleGISImport(st, gisData) ==
  LET r == resetScene(st)
      surface == [kind |-> "gis", pts |-> gisData.poles]
      placed == pushPoles([r EXCEPT !.gisElevationSurface = surface,
                                    !.customGround = surface,
                                    !.terrain = buildTerrain(PoleZs(gisData.poles))],
                          gisData.poles, 1)
  IN checkClearances(rebuild(placed))

\* terrainPoints of createTerrainFromProfile (centerProfile checked);
\* heightScale is in tenths
terrainPoints(points, hasDistance, sceneWidth, heightScale) ==
  LET minD == SetMin({points[k].distance : k \in 1..Len(points)})
      maxD == SetMax({points[k].distance : k \in 1..Len(points)})
      minE == SetMin({points[k].elevation : k \in 1..Len(points)})
      profileLength == IF maxD - minD = 0 THEN Ft(Len(points) - 1) ELSE maxD - minD
  IN [k \in 1..Len(points) |->
        [x |-> (IF hasDistance
                  THEN ((points[k].distance - minD) * sceneWidth) \div profileLength
                  ELSE ((k - 1) * sceneWidth) \div (Len(points) - 1)) - sceneWidth \div 2,
         y |-> ((points[k].elevation - minE) * heightScale) \div 10]]

handleElevationProfileImport(st, elevationData) ==
  LET surface == [kind |-> "elevationProfile",
                  pts |-> terrainPoints(elevationData.points, elevationData.hasDistance,
                                        elevationData.sceneWidth, elevationData.heightScale)]
  IN [resetScene(st) EXCEPT
        !.gisElevationSurface = surface, !.customGround = surface,
        !.terrain = [width |-> elevationData.sceneWidth, depth |-> elevationData.sceneDepth,
                     posZ |-> 0]]

\* ------------------------------------------------------ the import dialogs
\* a parser that takes every non-empty line of full length for a point
skipShortRows(csv, r) == r.blank \/ r.short

\* A CSV text is modelled by what split / trim / parseFloat make of it: the
\* columns its header line names and its data lines, each cell the number it
\* spells, NaN when it spells none.  blank marks an empty line, short a line
\* with fewer cells than the parser asks for.
skipProfileRow(csv, r) ==
  \/ r.blank
  \/ r.short
  \/ (csv.hasCoordinates /\ (r.x = NaN \/ r.y = NaN))
  \/ r.elevation = NaN

RECURSIVE profileRows(_, _, _)
profileRows(csv, i, points) ==
  IF i > Len(csv.rows) THEN points
  ELSE profileRows(csv, i + 1,
         IF skipProfileRow(csv, csv.rows[i]) THEN points
         ELSE Append(points,
                [distance |-> IF csv.hasDistance /\ csv.rows[i].distance # NaN
                                THEN csv.rows[i].distance ELSE 0,
                 elevation |-> csv.rows[i].elevation, index |-> i - 1]))

\* points.sort((a, b) => a.distance - b.distance), a stable sort
RECURSIVE SortByDistance(_)
SortByDistance(pts) ==
  IF Len(pts) <= 1 THEN pts
  ELSE LET rest == SortByDistance(Tail(pts))
           h == Head(pts)
           before == SelectSeq(rest, LAMBDA p : p.distance < h.distance)
           after == SelectSeq(rest, LAMBDA p : p.distance >= h.distance)
       IN before \o <<h>> \o after

\* what a call that throws leaves its caller with
Error(message) == [error |-> message]
Threw(result) == "error" \in DOMAIN result

parsedProfile(csv, points) ==
  IF Len(points) = 0 THEN Error("No valid elevation data found")
  ELSE [points |-> IF csv.hasDistance THEN SortByDistance(points) ELSE points,
        hasCoordinates |-> csv.hasCoordinates, hasDistance |-> csv.hasDistance]

parseElevationProfile(csv) ==
  IF Len(csv.rows) < 1 THEN Error("Elevation profile must contain header and data rows")
  ELSE IF ~csv.hasElevation THEN Error("No elevation column found")
  ELSE parsedProfile(csv, profileRows(csv, 1, <<>>))

\* the validation results are [success, warnings]; the warnings are named
\* by what they are about
profileWarnings(profileData) ==
  {m \in {"few points"} : Len(profileData.points) < 3}
    \cup {m \in {"flat"} :
            \A k \in 1..Len(profileData.points) :
              profileData.points[k].elevation = profileData.points[1].elevation}
    \cup {m \in {"no distance"} : ~profileData.hasDistance}

validatedProfile(profileData) ==
  IF Threw(profileData) THEN [success |-> FALSE, warnings |-> {}]
  ELSE [success |-> TRUE, warnings |-> profileWarnings(profileData)]

validateElevationProfile(csv) ==
  IF Len(csv.rows) < 1 THEN [success |-> FALSE, warnings |-> {}]
  ELSE validatedProfile(parseElevationProfile(csv))

createTerrainFromProfile(profileData, options) ==
  IF Len(profileData.points) < 2 THEN Error("Need at least 2 elevation points to create terrain")
  ELSE [kind |-> "elevationProfile",
        pts |-> terrainPoints(profileData.points, profileData.hasDistance,
                              options.sceneWidth, options.heightScale)]

\* parseGISData; latitudes and longitudes are in whole degrees
skipGISRow(csv, r) ==
  \/ r.blank
  \/ r.short \/ ~csv.hasLat \/ ~csv.hasLng
  \/ r.lat = NaN \/ r.lng = NaN \/ r.lat < -90 \/ r.lat > 90 \/ r.lng < -180 \/ r.lng > 180

RECURSIVE gisRows(_, _, _)
gisRows(csv, i, poles) ==
  IF i > Len(csv.rows) THEN poles
  ELSE gisRows(csv, i + 1,
         IF skipGISRow(csv, csv.rows[i]) THEN poles
         ELSE Append(poles,
                [lat |-> csv.rows[i].lat, lng |-> csv.rows[i].lng,
                 elevation |-> IF csv.rows[i].elevation = NaN THEN 0 ELSE csv.rows[i].elevation,
                 height |-> IF csv.rows[i].height # NaN /\ csv.rows[i].height > 0
                              THEN csv.rows[i].height ELSE Ft(defaultPoleHeight),
                 originalIndex |-> i]))

parsedGIS(poles) ==
  IF Len(poles) = 0 THEN Error("No valid pole data found in CSV. Please check the format.")
  ELSE [poles |-> poles]

parseGISData(csv) == parsedGIS(gisRows(csv, 1, <<>>))

gisWarnings(parsed) ==
  {m \in {"one pole"} : Len(parsed.poles) < 2}
    \cup {m \in {"close together"} :
            \A k \in 1..Len(parsed.poles) :
              parsed.poles[k].lat = parsed.poles[1].lat /\ parsed.poles[k].lng = parsed.poles[1].lng}
    \cup {m \in {"flat"} :
            \A k \in 1..Len(parsed.poles) : parsed.poles[k].elevation = parsed.poles[1].elevation}

validatedGIS(parsed) ==
  IF Threw(parsed) THEN [success |-> FALSE, warnings |-> {}]
  ELSE [success |-> TRUE, warnings |-> gisWarnings(parsed)]

\* lines.length counts the header line and the data lines
validateGISData(csv) ==
  IF Len(csv.rows) + (IF csv.hasHeaders THEN 1 ELSE 0) < 2
    THEN [success |-> FALSE, warnings |-> {}]
  ELSE validatedGIS(parseGISData(csv))

\* a conversion that converts nothing
convertNothing(gisData) == Error("No GIS data provided for conversion")

\* convertToSceneCoordinates.  The callback of gisData.map reads
\* convertedPoles, the constant the map's result is about to initialise, for
\* every index > 0: a ReferenceError.  A single record is its own centre, so
\* its deltas, and the spans the metadata is made of, are 0.
convertToSceneCoordinates(gisData) ==
  IF Len(gisData) = 0 THEN Error("No GIS data provided for conversion")
  ELSE IF Len(gisData) > 1 THEN Error("Cannot access 'convertedPoles' before initialization")
  ELSE [poles |-> <<[x |-> 0, z |-> 0, height |-> gisData[1].height,
                     elevation |-> gisData[1].elevation]>>,
        metadata |-> [originalBounds |-> [minLat |-> gisData[1].lat, maxLat |-> gisData[1].lat,
                                          minLng |-> gisData[1].lng, maxLng |-> gisData[1].lng],
                      scaleFactor |-> 1, overallBearing |-> 0, elevationRange |-> 0,
                      sceneSize |-> [width |-> 0, depth |-> 0]]]

\* The state of an import dialog: the CSV handed to it, currentData (what
\* processData kept, NoData for null), the messages on display and whether
\* the dialog closed with the import done.
NoData == [none |-> TRUE]
NoDialog == [kind |-> "none", csv |-> [rows |-> <<>>], options |-> [sceneWidth |-> 0],
             processed |-> FALSE, currentData |-> NoData, messages |-> {}, imported |-> FALSE]

convertedData(parsed, converted) ==
  IF Threw(converted) THEN NoData ELSE [parsed |-> parsed, converted |-> converted]

\* the try block of processData: what currentData becomes
processedData(kind, parsed) ==
  IF Threw(parsed) THEN NoData
  ELSE IF kind = "profile" THEN [parsed |-> parsed]
  ELSE convertedData(parsed, convertToSceneCoordinates(parsed.poles))

shownData(dlg, validation, data) ==
  [dlg EXCEPT !.processed = TRUE,
              !.currentData = IF validation.success THEN data ELSE NoData,
              !.messages = IF ~validation.success THEN {"error"}
                           ELSE validation.warnings
                                  \cup (IF data = NoData THEN {"error"} ELSE {"success"})]

processData(dlg) ==
  IF dlg.kind = "profile"
    THEN shownData(dlg, validateElevationProfile(dlg.csv),
                   processedData("profile", parseElevationProfile(dlg.csv)))
  ELSE shownData(dlg, validateGISData(dlg.csv), processedData("gis", parseGISData(dlg.csv)))

\* handleImport of either dialog: the scene and the dialog it leaves
importFailed(st, dlg) ==
  [scene |-> st, dialog |-> [dlg EXCEPT !.messages = @ \cup {"error"}]]

importComplete(st, dlg) == [scene |-> st, dialog |-> [dlg EXCEPT !.imported = TRUE]]

profileImport(st, dlg, options, terrainData) ==
  IF Threw(terrainData) THEN importFailed(st, dlg)
  ELSE importComplete(
         handleElevationProfileImport(st,
           [points |-> dlg.currentData.parsed.points,
            hasDistance |-> dlg.currentData.parsed.hasDistance,
            heightScale |-> options.heightScale,
            sceneWidth |-> options.sceneWidth, sceneDepth |-> options.sceneDepth]),
         dlg)

gisImport(st, dlg, finalData) ==
  IF Threw(finalData) THEN importFailed(st, dlg)
  ELSE importComplete(handleGISImport(st, [poles |-> finalData.poles]), dlg)

handleImport(st, dlg) ==
  IF dlg.currentData = NoData THEN [scene |-> st, dialog |-> dlg]
  ELSE IF dlg.kind = "profile"
    THEN profileImport(st, dlg, dlg.options,
                       createTerrainFromProfile(dlg.currentData.parsed, dlg.options))
  ELSE gisImport(st, dlg, convertToSceneCoordinates(dlg.currentData.parsed.poles))

\* ------------------------------------------------------------- page load
\* poles-distances / poles-heights / poles-elevations after split(','):
\* each token is the number it spells, NaN when it spells none
parseList(tokens) == SelectSeq(tokens, LAMBDA v : v # NaN)

customPolesOf(params) ==
  LET poleDistances == parseList(params.distances)
      poleHeights == parseList(params.heights)
      poleElevations == parseList(params.elevations)
  IN IF Len(poleDistances) = 0 \/ Len(poleHeights) = 0 THEN <<>>
     ELSE [i \in 1..Len(poleDistances) |->
             [x |-> 0, z |-> poleDistances[i],
              h |-> IF i <= Len(poleHeights) THEN poleHeights[i] ELSE Ft(defaultPoleHeight),
              elev |-> IF i <= Len(poleElevations) THEN poleElevations[i] ELSE 0]]

UIStateDefaults ==
  [currentHeight |-> defaultHeight, currentTension |-> defaultTension,
   clearanceThreshold |-> Ft(defaultClearanceThreshold), challengeSpent |-> 0,
   poleToolActive |-> TRUE, conductorToolActive |-> TRUE, eraserToolActive |-> FALSE,
   inspectToolActive |-> FALSE, conductorStartPole |-> 0]

loadPage(params) ==
  LET customPoles == customPolesOf(params)
      ground == IF Len(customPoles) > 0 THEN [kind |-> "url", knots |-> customPoles]
                ELSE NoSurface
      empty ==
        [heap |-> <<>>, poles |-> <<>>, spans |-> <<>>, lines |-> <<>>,
         warning |-> FALSE, flaggedGroups |-> {}, indicators |-> {},
         history |-> [states |-> <<>>, currentIndex |-> -1],
         UIState |-> [UIStateDefaults EXCEPT
                        !.currentTension = IF params.tension # NaN THEN params.tension ELSE @,
                        !.clearanceThreshold =
                           IF params.clearanceThreshold # NaN THEN params.clearanceThreshold ELSE @],
         challengeState |-> [active |-> FALSE, isPowered |-> FALSE,
                             substationBuilding |-> NoBuilding, customerBuilding |-> NoBuilding],
         customGround |-> ground, gisElevationSurface |-> NoSurface,
         terrain |-> buildTerrain({customPoles[k].z : k \in 1..Len(customPoles)}),
         drag |-> NoDrag]
      placed == pushPoles(empty,
                  [k \in 1..Len(customPoles) |->
                     [x |-> 0, z |-> customPoles[k].z, height |-> customPoles[k].h,
                      elevation |-> customPoles[k].elev]], 1)
  IN IF Len(customPoles) > 0 THEN captureState(rebuild(placed)) ELSE captureState(empty)

\* ------------------------------------------------------------- the inputs
\* terrain points the pointer can be over (in 1/Scale ft, before SNAP)
Hits == {[x |-> 20, z |-> Ft(25) - 20], [x |-> -30, z |-> Ft(65) + 30]}
TensionValues == {2000}
ThresholdValues == {Ft(15), Ft(25)}
DeltaYs == {-200}
NoParams == [distances |-> <<>>, heights |-> <<>>, elevations |-> <<>>,
             tension |-> NaN, clearanceThreshold |-> NaN]
UrlParams ==
  {NoParams,
   [NoParams EXCEPT !.tension = 125],
   [NoParams EXCEPT !.distances = <<Ft(25), Ft(65)>>, !.heights = <<Ft(20), Ft(20)>>,
                    !.elevations = <<0, Ft(10)>>]}
\* poles taller than a scene file may hold
TallPoles == [NoParams EXCEPT !.distances = <<Ft(25), Ft(65)>>, !.heights = <<Ft(120), Ft(20)>>,
                              !.elevations = <<0, Ft(10)>>]
SceneFiles ==
  {[poles |-> <<[x |-> 0, z |-> Ft(25), height |-> Ft(20), elevation |-> 0]>>,
    surfaceKind |-> "profile", hasBounds |-> TRUE, minZ |-> Ft(25), maxZ |-> Ft(65),
    elevationProfile |-> <<[z |-> Ft(25), elevation |-> 0], [z |-> Ft(65), elevation |-> Ft(8)]>>,
    hasTension |-> TRUE, tension |-> 125,
    hasClearanceThreshold |-> TRUE, clearanceThreshold |-> Ft(15)]}
\* scene files written by hand: a surface without bounds, a pole too tall
HandWrittenFiles ==
  {[poles |-> <<[x |-> 0, z |-> Ft(25), height |-> h, elevation |-> 0]>>,
    surfaceKind |-> "profile", hasBounds |-> b, minZ |-> Ft(25), maxZ |-> Ft(65),
    elevationProfile |-> <<[z |-> Ft(25), elevation |-> 0], [z |-> Ft(65), elevation |-> Ft(8)]>>,
    hasTension |-> FALSE, tension |-> 0,
    hasClearanceThreshold |-> FALSE, clearanceThreshold |-> 0] :
     h \in {Ft(20), Ft(120)}, b \in {FALSE}}
GisFiles == {[poles |-> <<[x |-> 0, z |-> 0, height |-> Ft(10), elevation |-> Ft(5)]>>]}
ProfileFiles ==
  {[points |-> <<[distance |-> 0, elevation |-> Ft(50)], [distance |-> Ft(100), elevation |-> Ft(50)],
                 [distance |-> Ft(101), elevation |-> Ft(60)], [distance |-> Ft(200), elevation |-> Ft(60)]>>,
    hasDistance |-> TRUE, heightScale |-> 10, sceneWidth |-> Ft(200), sceneDepth |-> Ft(200)]}

\* the CSV files handed to the import dialogs, with the options selected
Seqs(S, n) == UNION {[1..k -> S] : k \in 1..n}
ProfileRow(d, e) == [blank |-> FALSE, short |-> FALSE, x |-> 0, y |-> 0, distance |-> d, elevation |-> e]
ProfileRows ==
  {ProfileRow(0, Ft(50)), ProfileRow(Ft(100), Ft(60)), ProfileRow(Ft(100), Ft(70)),
   ProfileRow(Ft(200), Ft(50)), ProfileRow(Ft(100), NaN),
   [ProfileRow(Ft(100), Ft(60)) EXCEPT !.short = TRUE],
   [ProfileRow(Ft(200), Ft(60)) EXCEPT !.x = NaN]}
ProfileCsvs ==
  {[hasElevation |-> h[1], hasDistance |-> h[2], hasCoordinates |-> h[3], rows |-> rows] :
     h \in {<<TRUE, TRUE, FALSE>>, <<TRUE, FALSE, FALSE>>, <<TRUE, TRUE, TRUE>>,
            <<FALSE, TRUE, FALSE>>},
     rows \in Seqs(ProfileRows, MaxRows)}
GisRow(lat, lng, e, h) == [blank |-> FALSE, short |-> FALSE, lat |-> lat, lng |-> lng, elevation |-> e, height |-> h]
GisRows ==
  {GisRow(33, -116, Ft(5), NaN), GisRow(34, -116, Ft(8), Ft(25)), GisRow(95, -116, Ft(5), NaN),
   GisRow(33, NaN, Ft(5), NaN), [GisRow(33, -116, Ft(5), NaN) EXCEPT !.short = TRUE]}
GisCsvs ==
  {[hasHeaders |-> h[1], hasLat |-> TRUE, hasLng |-> h[2], rows |-> rows] :
     h \in {<<TRUE, TRUE>>, <<FALSE, TRUE>>, <<TRUE, FALSE>>},
     rows \in Seqs(GisRows, MaxRows)}
ImportOptions ==
  {[sceneWidth |-> Ft(200), sceneDepth |-> Ft(100), heightScale |-> h] : h \in {10, 20}}
OpenDialogs ==
  {[NoDialog EXCEPT !.kind = "profile", !.csv = csv, !.options = o] :
     csv \in ProfileCsvs, o \in ImportOptions}
    \cup {[NoDialog EXCEPT !.kind = "gis", !.csv = csv] : csv \in GisCsvs}

NoQuery == [x |-> 0, z |-> 0, asked |-> FALSE, result |-> 0]

\* no scene file has been exported
NoFile == [exported |-> FALSE]

\* ------------------------------------------------------ the state machine
VARIABLES heap, poles, spans, lines, warning, flaggedGroups, indicators, history,
          UIState, challengeState, customGround, gisElevationSurface, terrain, drag,
          lastSurface, steps, query, dialog, download, solver, alert, timer

vars == <<heap, poles, spans, lines, warning, flaggedGroups, indicators, history,
          UIState, challengeState, customGround, gisElevationSurface, terrain, drag,
          lastSurface, steps, query, dialog, download, solver, alert, timer>>

St ==
  [heap |-> heap, poles |-> poles, spans |-> spans, lines |-> lines, warning |-> warning,
   flaggedGroups |-> flaggedGroups, indicators |-> indicators, history |-> history,
   UIState |-> UIState, challengeState |-> challengeState, customGround |-> customGround,
   gisElevationSurface |-> gisElevationSurface, terrain |-> terrain, drag |-> drag]

\* pole objects something still refers to; the others are garbage
Reachable(r) ==
  {r.poles[i] : i \in 1..Len(r.poles)}
    \cup {r.spans[i].a : i \in 1..Len(r.spans)} \cup {r.spans[i].b : i \in 1..Len(r.spans)}
    \cup ({r.UIState.conductorStartPole} \ {0})

\* the program moves to state r; lastSurface is the surface the most recent
\* elevation-source change installed (slot names the variable it was stored
\* in, "none" where the operation installs none), steps the number of user
\* operations so far
\* the scene after a handler has run
Assigns(r, slot) ==
  /\ heap' = [i \in Reachable(r) |-> r.heap[i]]
  /\ poles' = r.poles
  /\ spans' = r.spans
  /\ lines' = r.lines
  /\ warning' = r.warning
  /\ flaggedGroups' = r.flaggedGroups
  /\ indicators' = r.indicators
  /\ history' = r.history
  /\ UIState' = r.UIState
  /\ challengeState' = r.challengeState
  /\ customGround' = r.customGround
  /\ gisElevationSurface' = r.gisElevationSurface
  /\ terrain' = r.terrain
  /\ drag' = r.drag
  /\ lastSurface' = IF slot = "none" THEN lastSurface ELSE r[slot]

Moves(r, slot) == steps < MaxSteps /\ steps' = steps + 1 /\ Assigns(r, slot)

Becomes(r, slot) ==
  Moves(r, slot) /\ query' = query /\ dialog' = dialog /\ download' = download
    /\ solver' = solver /\ alert' = NoAlert /\ timer' = timer

\* the page is in state r with the query q pending and the dialog d
SceneStarts(r, q, d) ==
  /\ heap = r.heap /\ poles = r.poles /\ spans = r.spans /\ lines = r.lines
  /\ warning = r.warning /\ flaggedGroups = r.flaggedGroups
  /\ indicators = r.indicators /\ history = r.history /\ UIState = r.UIState
  /\ challengeState = r.challengeState /\ customGround = r.customGround
  /\ gisElevationSurface = r.gisElevationSurface /\ terrain = r.terrain
  /\ drag = r.drag /\ lastSurface = r.customGround /\ steps = 0
  /\ query = q /\ dialog = d /\ download = NoFile /\ alert = NoAlert /\ timer = 0

\* the program starts so, no call of the solver being followed
StartsWith(r, q, d) == SceneStarts(r, q, d) /\ solver = NoSolver

Starts(r, q) == StartsWith(r, q, NoDialog)

Init == \E params \in UrlParams : Starts(loadPage(params), NoQuery)

PoleIds == {poles[i] : i \in 1..Len(poles)}

\* a click on the terrain with the pole tool (alone or with the conductor tool)
PoleToolClick ==
  \E hit \in Hits :
    /\ drag.obj = 0 /\ UIState.poleToolActive /\ OnTerrain(terrain, hit)
    /\ Becomes(handleToolClick(St, [x |-> SNAP(hit.x), z |-> SNAP(hit.z)], 0, 0), "none")

\* a click next to a pole with the conductor tool alone
ConductorToolClick ==
  \E id \in PoleIds :
    /\ drag.obj = 0 /\ UIState.conductorToolActive /\ ~UIState.poleToolActive
    /\ Becomes(handleToolClick(St, NoPoint, id, 0), "none")

EraserClickPole ==
  \E id \in PoleIds :
    /\ drag.obj = 0 /\ UIState.eraserToolActive
    /\ Becomes(handleToolClick(St, NoPoint, id, 0), "none")

EraserClickSpan ==
  \E i \in 1..Len(lines) :
    /\ drag.obj = 0 /\ UIState.eraserToolActive
    /\ Becomes(handleToolClick(St, NoPoint, 0, i), "none")

PointerDown ==
  \E id \in PoleIds, altKey \in BOOLEAN :
    /\ drag.obj = 0 /\ ~UIState.eraserToolActive
    /\ Becomes(pointerdown(St, id, altKey), "none")

PointerMove ==
  \E hit \in Hits, deltaY \in DeltaYs :
    /\ drag.obj # 0
    /\ Becomes(pointermove(St, IF OnTerrain(terrain, hit) THEN hit ELSE NoPoint, deltaY),
               "none")

PointerUp == drag.obj # 0 /\ Becomes(pointerup(St), "none")

\* the undo / redo buttons are disabled while there is nothing to undo / redo
Undo == canUndo(history) /\ Becomes(undo(St), "none")

Redo == canRedo(history) /\ Becomes(redo(St), "none")

TensionSlider ==
  \E v \in TensionValues : drag.obj = 0 /\ Becomes(tensionSliderInput(St, v), "none")

ThresholdSlider ==
  \E v \in ThresholdValues :
    drag.obj = 0 /\ Becomes(clearanceThresholdInput(St, v), "none")

ClearButton == drag.obj = 0 /\ Becomes(resetScene(St), "none")

ImportScene ==
  \E file \in SceneFiles :
    drag.obj = 0
      /\ Becomes(importScene(St, file),
                 IF file.surfaceKind = "absent" THEN "none" ELSE "customGround")

GISImport ==
  \E gisData \in GisFiles :
    drag.obj = 0 /\ Becomes(handleGISImport(St, gisData), "gisElevationSurface")

ElevationProfileImport ==
  \E elevationData \in ProfileFiles :
    drag.obj = 0
      /\ Becomes(handleElevationProfileImport(St, elevationData), "gisElevationSurface")

EnterChallenge == drag.obj = 0 /\ Becomes(enterChallengeMode(St), "none")

ExitChallenge == drag.obj = 0 /\ Becomes(exitChallengeMode(St), "none")

\* the Check Solution button; the alert is dismissed before the next operation
Reports(r) ==
  Moves(r.scene, "none") /\ alert' = r.alert
    /\ UNCHANGED <<query, dialog, download, solver, timer>>

CheckSolution ==
  drag.obj = 0 /\ challengeState.active /\ Reports(checkChallengeSolution(St))

ToolButton ==
  \E tool \in {"pole", "conductor", "eraser"} :
    drag.obj = 0 /\ Becomes(toolButtonClick(St, tool), "none")

Next ==
  \/ PoleToolClick
  \/ ConductorToolClick
  \/ EraserClickPole
  \/ EraserClickSpan
  \/ PointerDown
  \/ PointerMove
  \/ PointerUp
  \/ Undo
  \/ Redo
  \/ TensionSlider
  \/ ThresholdSlider
  \/ ClearButton
  \/ ImportScene
  \/ GISImport
  \/ ElevationProfileImport
  \/ EnterChallenge
  \/ ExitChallenge
  \/ CheckSolution
  \/ ToolButton

Spec == Init /\ [][Next]_vars

\* ------------------------------------------------- the height query alone
\* Surfaces the two slots can hold, and the points asked about.  The URL
\* lists are the ones page load accepts (any numbers, in the order given);
\* the scene profiles are the ones validateSceneData lets through.
UrlSurfaces ==
  {[kind |-> "url", knots |-> customPolesOf([NoParams EXCEPT !.distances = d, !.heights = <<Ft(20), Ft(20)>>,
                                                             !.elevations = e])] :
     d \in {<<Ft(25), Ft(65)>>, <<Ft(65), Ft(25)>>, <<Ft(25), NaN, Ft(25)>>},
     e \in {<<0, Ft(10)>>, <<Ft(4)>>}}
SceneSurfaces ==
  {[kind |-> "scene", hasBounds |-> b, minZ |-> Ft(0), maxZ |-> Ft(80), elevationProfile |-> p] :
     b \in BOOLEAN,
     p \in {<<>>,
            <<[z |-> Ft(0), elevation |-> 0], [z |-> Ft(80), elevation |-> Ft(8)]>>,
            <<[z |-> Ft(25), elevation |-> Ft(1)], [z |-> Ft(25), elevation |-> Ft(2)]>>}}
LoadedSurfaces ==
  {[kind |-> "gis", pts |-> g.poles] : g \in GisFiles}
    \cup {[kind |-> "elevationProfile", pts |-> terrainPoints(f.points, f.hasDistance, f.sceneWidth, f.heightScale)] :
            f \in ProfileFiles}
QueryPoints ==
  {[x |-> x, z |-> z] : x \in {0, (12 * Scale) \div 10, Ft(100) + (12 * Scale) \div 10},
                        z \in {Ft(10), Ft(25), Ft(45), Ft(65)}}

InitElev ==
  \E g \in LoadedSurfaces \cup {NoSurface},
     c \in UrlSurfaces \cup SceneSurfaces \cup LoadedSurfaces \cup {NoSurface},
     p \in QueryPoints :
    /\ (c \in UrlSurfaces => g = NoSurface)
    /\ (c \in LoadedSurfaces => g = c)
    /\ Starts([loadPage(NoParams) EXCEPT !.gisElevationSurface = g, !.customGround = c],
              [NoQuery EXCEPT !.x = p.x, !.z = p.z])

\* one call hAt(x, z)
Query ==
  /\ ~query.asked
  /\ query' = [query EXCEPT !.asked = TRUE, !.result = hAt(St, query.x, query.z)]
  /\ UNCHANGED <<heap, poles, spans, lines, warning, flaggedGroups, indicators, history,
                 UIState, challengeState, customGround, gisElevationSurface, terrain, drag,
                 lastSurface, steps, dialog, download, solver, alert, timer>>

NextElev == Query

SpecElev == InitElev /\ [][NextElev]_vars

\* ------------------------------------------------------ the import dialogs
\* A dialog is open on a CSV file; its data is processed, the Import button
\* (enabled while currentData is set) is pressed, and the imported profile
\* is asked for the height at the position of one of its points.
InitImport == \E d \in OpenDialogs : StartsWith(loadPage(NoParams), NoQuery, d)

sceneVars == <<heap, poles, spans, lines, warning, flaggedGroups, indicators, history,
               UIState, challengeState, customGround, gisElevationSurface, terrain, drag,
               lastSurface, steps>>

ProcessData ==
  /\ dialog.kind # "none" /\ ~dialog.processed
  /\ dialog' = processData(dialog)
  /\ UNCHANGED <<sceneVars, query, download, solver, alert, timer>>

Imports(r) ==
  Moves(r.scene, "gisElevationSurface") /\ dialog' = r.dialog /\ UNCHANGED <<query, download, solver, alert, timer>>

ImportButton ==
  /\ dialog.processed /\ ~dialog.imported /\ dialog.currentData # NoData
  /\ Imports(handleImport(St, dialog))

SampleProfile ==
  /\ dialog.kind = "profile" /\ dialog.imported /\ ~query.asked
  /\ \E k \in 1..Len(gisElevationSurface.pts) :
    /\ query' = [x |-> gisElevationSurface.pts[k].x, z |-> 0, asked |-> TRUE,
                 result |-> hAt(St, gisElevationSurface.pts[k].x, 0)]
    /\ UNCHANGED <<sceneVars, dialog, download, solver, alert, timer>>

NextImport == ProcessData \/ ImportButton \/ SampleProfile

SpecImport == InitImport /\ [][NextImport]_vars

\* Math.round of a length in feet
RoundFt(v) == IF v = NaN THEN NaN ELSE ((2 * v + Scale) \div (2 * Scale)) * Scale

\* copyScenarioLink: the parameters of the URL copied, NaN standing for a
\* parameter left out and, in a list, for the token "NaN"
copyScenarioLink(st) ==
  LET ps == st.poles
      first == st.heap[ps[1]]
  IN [distances |-> [i \in 1..Len(ps) |->
                       IF i = 1 THEN 0
                       ELSE RoundFt(Hypot(st.heap[ps[i]].x - first.x, st.heap[ps[i]].z - first.z))],
      heights |-> [i \in 1..Len(ps) |-> RoundFt(st.heap[ps[i]].h)],
      elevations |-> [i \in 1..Len(ps) |-> RoundFt(st.heap[ps[i]].base)],
      tension |-> IF st.UIState.currentTension # defaultTension
                    THEN st.UIState.currentTension ELSE NaN,
      clearanceThreshold |-> IF st.UIState.clearanceThreshold # Ft(defaultClearanceThreshold)
                               THEN st.UIState.clearanceThreshold ELSE NaN]

\* ------------------------------------------------------------ the solver
\* solveCatenaryParameter is called with a span and a target sag and runs to
\* its return; the scheduler runs a started call on.
SolverSpans == {0, Ft(5), Ft(30), Ft(40), Ft(100)}
SolverSags == {0, Ft(1) \div 10, Ft(1), (Ft(3) \div 2), Ft(2), Ft(10), -Ft(2)}

InitSolver ==
  \E span \in SolverSpans, targetSag \in SolverSags :
    SceneStarts(loadPage(NoParams), NoQuery, NoDialog)
      /\ solver = solverCall(span, targetSag)

NewtonPass ==
  /\ solver.pc = "loop" /\ loopContinues(solver)
  /\ solver' = newtonPass(solver)
  /\ UNCHANGED <<sceneVars, query, dialog, download, alert, timer>>

ReturnEstimate ==
  /\ solver.pc = "loop" /\ ~loopContinues(solver)
  /\ solver' = returnEstimate(solver)
  /\ UNCHANGED <<sceneVars, query, dialog, download, alert, timer>>

NextSolver == NewtonPass \/ ReturnEstimate

SpecSolver == InitSolver /\ [][NextSolver]_vars /\ WF_vars(NextSolver)

\* ------------------------------------------------------- the scene files
\* Scenes made by the page's URL, the imports and clicks with the pole tool
\* are exported; the page is loaded again or not, and the file is imported.
InitFile == \E params \in UrlParams \cup {TallPoles} : Starts(loadPage(params), NoQuery)

ExportScene ==
  /\ download' = exportScene(St, download)
  /\ UNCHANGED <<sceneVars, query, dialog, solver, alert, timer>>

ImportDownload ==
  download # NoFile /\ drag.obj = 0 /\ Becomes(importScene(St, download), "customGround")

ReloadPage ==
  \E params \in UrlParams \cup {TallPoles} : Becomes(loadPage(params), "customGround")

\* Copy Link, and the page opened at the URL copied
OpenCopiedLink == drag.obj = 0 /\ Becomes(loadPage(copyScenarioLink(St)), "customGround")

ImportHandWritten ==
  \E file \in HandWrittenFiles :
    drag.obj = 0 /\ Becomes(importScene(St, file), "customGround")

NextFile ==
  \/ PoleToolClick
  \/ GISImport
  \/ ElevationProfileImport
  \/ ExportScene
  \/ ImportDownload
  \/ ReloadPage
  \/ OpenCopiedLink
  \/ ImportHandWritten

SpecFile == InitFile /\ [][NextFile]_vars

\* ------------------------------------------- the keyboard and the tools
\* Ctrl+Z reaches two keydown listeners, the document's before the window's:
\* the first clicks the undo button unless the focus is in an input field or
\* the button is disabled, the second calls history.undo()
ctrlZ(st, inField) ==
  undo(IF ~inField /\ canUndo(st.history) THEN undo(st) ELSE st)

\* Ctrl+Y or Ctrl+Shift+Z, likewise
ctrlY(st, inField) ==
  redo(IF ~inField /\ canRedo(st.history) THEN redo(st) ELSE st)

\* Escape
escapeKey(st) ==
  LET ui == st.UIState
  IN IF ui.poleToolActive \/ ui.conductorToolActive \/ ui.inspectToolActive
          \/ ui.eraserToolActive
       THEN [st EXCEPT !.UIState.poleToolActive = FALSE,
                       !.UIState.conductorToolActive = FALSE,
                       !.UIState.inspectToolActive = FALSE,
                       !.UIState.eraserToolActive = FALSE,
                       !.UIState.conductorStartPole = 0]
     ELSE st

Tools == {"pole", "conductor", "inspect", "eraser"}

\* a click on a tool button, or the key P, C, I or E, which clicks it
ToolPanelClick ==
  \E tool \in Tools : drag.obj = 0 /\ Becomes(toolButtonClick(St, tool), "none")

EscapeKey == drag.obj = 0 /\ Becomes(escapeKey(St), "none")

UndoKey == \E inField \in BOOLEAN : drag.obj = 0 /\ Becomes(ctrlZ(St, inField), "none")

RedoKey == \E inField \in BOOLEAN : drag.obj = 0 /\ Becomes(ctrlY(St, inField), "none")

NextKeys ==
  \/ PoleToolClick
  \/ ConductorToolClick
  \/ EraserClickPole
  \/ ToolPanelClick
  \/ EscapeKey
  \/ UndoKey
  \/ RedoKey

SpecKeys == Init /\ [][NextKeys]_vars

\* ------------------------------------------------------ the level reset
\* Reset Level leaves challenge mode at once and enters it again from a timer
\* 50 ms later; the mode buttons, the pole tool and undo work meanwhile.  The
\* browser runs every timer that is due.
deferredNothing(st) == st

\* the callback of setTimeout(() => enterChallengeMode(), 50)
deferredEntry(st) == enterChallengeMode(st)

ResetLevel ==
  /\ drag.obj = 0 /\ challengeState.active /\ timer < MaxTimers
  /\ Moves(exitChallengeMode(St), "none")
  /\ timer' = timer + 1 /\ alert' = NoAlert
  /\ UNCHANGED <<query, dialog, download, solver>>

TimerFires ==
  /\ timer > 0
  /\ Assigns(deferredEntry(St), "none")
  /\ timer' = timer - 1
  /\ UNCHANGED <<steps, query, dialog, download, solver, alert>>

NextReset ==
  \/ EnterChallenge
  \/ ExitChallenge
  \/ PoleToolClick
  \/ Undo
  \/ ResetLevel
  \/ TimerFires

SpecReset == Init /\ [][NextReset]_vars /\ WF_vars(TimerFires)

\* ------------------------------------------------------ the history alone
\* A pole is grabbed and released over and over (every release captures a
\* snapshot), with undo, redo and Clear in between, until the history is full.
Runs(r) ==
  Assigns(r, "none") /\ UNCHANGED <<steps, query, dialog, download, solver, alert, timer>>

GrabPole == \E id \in PoleIds : drag.obj = 0 /\ Runs(pointerdown(St, id, FALSE))

ReleasePole == drag.obj # 0 /\ Runs(pointerup(St))

UndoAgain == canUndo(history) /\ Runs(undo(St))

RedoAgain == canRedo(history) /\ Runs(redo(St))

ClearAgain == drag.obj = 0 /\ Runs(resetScene(St))

NextHistory ==
  \/ GrabPole
  \/ ReleasePole
  \/ UndoAgain
  \/ RedoAgain
  \/ ClearAgain

SpecHistory == Init /\ [][NextHistory]_vars

\* ------------------------------------------------------------ properties
\* C4: a height query returns the GIS surface's value when a GIS surface is
\* set, otherwise the custom ground's value when one is set, otherwise 0.
C4_SurfacePriority ==
  query.asked =>
    query.result =
      IF gisElevationSurface # NoSurface
        THEN EvalSurface(gisElevationSurface, query.x, query.z)
      ELSE IF customGround # NoSurface THEN EvalSurface(customGround, query.x, query.z)
      ELSE 0

\* a query answered by the GIS surface while a different custom ground is set
C4_Witness ==
  /\ query.asked
  /\ gisElevationSurface # NoSurface /\ customGround # NoSurface
  /\ IsNum(EvalSurface(customGround, query.x, query.z))
  /\ EvalSurface(customGround, query.x, query.z)
       # EvalSurface(gisElevationSurface, query.x, query.z)
  /\ query.result = EvalSurface(gisElevationSurface, query.x, query.z)

\* C8: for every elevation source and every query point the height query
\* returns a finite number; it neither throws nor yields NaN.
C8_QueryFinite == query.asked => IsNum(query.result)

\* C10: asked at the distance of a knot of the URL's list, the
\* piecewise-linear surface returns the elevation of a knot at that distance.
C10_KnotExact ==
  (query.asked /\ gisElevationSurface = NoSurface /\ customGround.kind = "url") =>
    \A k \in 1..Len(customGround.knots) :
      customGround.knots[k].z = query.z =>
        \E j \in 1..Len(customGround.knots) :
          /\ customGround.knots[j].z = query.z
          /\ query.result = customGround.knots[j].elev

\* the clearances of the sampled points of drawn line i that are numbers
LineClearances(i) ==
  {clearanceToGround(St, lines[i].pts[k]) : k \in 1..(Samples + 1)} \ {NaN}

C2_EveryConductorEvaluated ==
  (\E i \in 1..Len(lines) : \E c \in LineClearances(i) : c < UIState.clearanceThreshold)
    => warning

\* C3: for every flagged span group a violating point is reported, and the
\* clearance reported is the group's minimum over all its conductors.
C3_ReportedMinimum ==
  \A key \in flaggedGroups \cap spanGroups(lines) :
    \E m \in indicators :
      /\ m.a = key[1] /\ m.b = key[2]
      /\ m.clearance = groupMinClearance(St, lines, key)

C6_PositiveSpanLength ==
  /\ \A i \in 1..Len(spans) :
       Hypot(heap[spans[i].b].x - heap[spans[i].a].x, heap[spans[i].b].z - heap[spans[i].a].z) > 0
  /\ \A i \in 1..Len(lines) : \A k \in 1..(Samples + 1) :
       lines[i].pts[k].x # NaN /\ lines[i].pts[k].z # NaN

\* C7: the tension factor handed to the curve builder is greater than zero,
\* whichever way the tension was set.
C7_TensionPositive == lines # <<>> => tensionFactor(UIState.currentTension) > 0

\* C9: the drawn curves are the curves of current poles under the current
\* tension, and the clearance status is the one the drawn curves have under
\* the current threshold and elevation source.
C9_ComputedFromCurrent ==
  /\ \A i \in 1..Len(lines) :
       (lines[i].a # 0 /\ lines[i].b # 0) =>
         \E a \in PoleIds, b \in PoleIds, c \in 1..3 :
           lines[i].pts = getConductorCurve(Pole(heap, a), Pole(heap, b),
                            tensionFactor(UIState.currentTension), Samples, crossarmPositions[c])
  /\ warning = (\E key \in spanGroups(lines) :
                  groupMinClearance(St, lines, key) < UIState.clearanceThreshold)

\* the surface a height query consults
ActiveSurface == IF gisElevationSurface # NoSurface THEN gisElevationSurface ELSE customGround

\* the knots of a piecewise-linear profile surface, as (position, elevation)
\* along the profile's axis, and the coordinate of the query on that axis
ProfileKnots(s) ==
  IF s.kind = "url" THEN {[pos |-> s.knots[k].z, elev |-> s.knots[k].elev] : k \in 1..Len(s.knots)}
  ELSE IF s.kind = "scene"
    THEN {[pos |-> s.elevationProfile[k].z, elev |-> s.elevationProfile[k].elevation] :
            k \in 1..Len(s.elevationProfile)}
  ELSE IF s.kind = "elevationProfile"
    THEN {[pos |-> s.pts[k].x, elev |-> s.pts[k].y] : k \in 1..Len(s.pts)}
  ELSE {}
ProfileAxis(s, q) == IF s.kind = "elevationProfile" THEN q.x ELSE q.z
EndKnotElevations(K, end) == {k.elev : k \in {j \in K : j.pos = end}}

\* C11: a query outside the knot range of a piecewise-linear profile surface
\* returns the elevation of the nearest end knot, never an extrapolated value.
C11_ClampOutside ==
  (query.asked /\ ProfileKnots(ActiveSurface) # {}) =>
    /\ ProfileAxis(ActiveSurface, query) < SetMin({k.pos : k \in ProfileKnots(ActiveSurface)})
         => query.result \in EndKnotElevations(ProfileKnots(ActiveSurface),
                                               SetMin({k.pos : k \in ProfileKnots(ActiveSurface)}))
    /\ ProfileAxis(ActiveSurface, query) > SetMax({k.pos : k \in ProfileKnots(ActiveSurface)})
         => query.result \in EndKnotElevations(ProfileKnots(ActiveSurface),
                                               SetMax({k.pos : k \in ProfileKnots(ActiveSurface)}))

\* the profile data the open dialog holds, once parseElevationProfile
\* accepted the CSV
ProfileAccepted == dialog.kind = "profile" /\ dialog.processed /\ dialog.currentData # NoData
ParsedPoints == dialog.currentData.parsed.points
\* (elevation - minimum elevation) x heightScale of parsed point k
RescaledElevation(k) ==
  ((ParsedPoints[k].elevation - SetMin({ParsedPoints[j].elevation : j \in 1..Len(ParsedPoints)}))
     * dialog.options.heightScale) \div 10
\* the parsed points whose rescaled x-position is the position asked about
SampledPoints == {k \in 1..Len(ParsedPoints) : gisElevationSurface.pts[k].x = query.x}

\* C12: for every CSV parseElevationProfile accepts, createTerrainFromProfile
\* returns an elevation function, and asked at the rescaled x-position of any
\* parsed point it returns exactly that point's rescaled elevation.
C12_RoundTrip ==
  ProfileAccepted =>
    /\ "error" \notin dialog.messages
    /\ (dialog.imported /\ query.asked) =>
         \A k \in SampledPoints : query.result = RescaledElevation(k)

\* C12 amended: the same for the profiles createTerrainFromProfile accepts
\* (two points or more) whose points lie at pairwise distinct x-positions.
DistinctPositions ==
  \A j, k \in 1..Len(ParsedPoints) :
    j # k => gisElevationSurface.pts[j].x # gisElevationSurface.pts[k].x
C12_RoundTripDistinct ==
  (ProfileAccepted /\ Len(ParsedPoints) >= 2) =>
    /\ "error" \notin dialog.messages
    /\ (dialog.imported /\ query.asked /\ DistinctPositions) =>
         \A k \in SampledPoints : query.result = RescaledElevation(k)

\* a three-point profile, one row of the CSV skipped or not, sampled at its
\* highest point
C12_Witness ==
  /\ ProfileAccepted /\ dialog.imported /\ query.asked /\ DistinctPositions
  /\ Len(ParsedPoints) = 3
  /\ \E k \in SampledPoints : k > 1 /\ RescaledElevation(k) > 0 /\ query.result = RescaledElevation(k)

\* the pole list of the scene, as {x, z, height, elevation}
PoleList(h, ps) ==
  [k \in 1..Len(ps) |-> [x |-> h[ps[k]].x, z |-> h[ps[k]].z, height |-> h[ps[k]].h,
                         elevation |-> h[ps[k]].base]]

\* C13: the exported file holds the scene's pole list, and importing an
\* exported file succeeds and leaves a pole list equal to the file's, pole by
\* pole and in order, in x, z, height and elevation.
C13_PolesRoundTrip ==
  [][/\ ExportScene => (download' # NoFile /\ download'.poles = PoleList(heap, poles))
     /\ ImportDownload =>
          (validateSceneData(download) /\ PoleList(heap', poles') = download.poles)]_vars

\* the (distance, elevation) pairs a scene file carries
FileKnots(file) ==
  {[pos |-> file.elevationProfile[k].z, elev |-> file.elevationProfile[k].elevation] :
     k \in 1..Len(file.elevationProfile)}

\* C14: when the active elevation source is a profile, the exported file
\* carries that profile's knots, and the ground the file restores has, at
\* every point, the height the ground of the exporting session has.
C14_ProfileRoundTrip ==
  [][(ExportScene /\ ProfileKnots(ActiveSurface) # {}) =>
       /\ FileKnots(download') = ProfileKnots(ActiveSurface)
       /\ \A p \in QueryPoints :
            surfaceHeight(restoredGround(download', NoSurface), p.x, p.z) = hAt(St, p.x, p.z)]_vars

C16_SpansExported ==
  [][ExportScene =>
       \A i \in 1..Len(spans) :
         /\ "spans" \in DOMAIN download'
         /\ \E j \in 1..Len(download'.spans) :
              /\ download'.spans[j].a = [x |-> heap[spans[i].a].x, z |-> heap[spans[i].a].z]
              /\ download'.spans[j].b = [x |-> heap[spans[i].b].x, z |-> heap[spans[i].b].z]]_vars

\* the records parseGISData read from the CSV the GIS dialog processed
GisRecords == parseGISData(dialog.csv).poles
GisProcessed ==
  /\ dialog.kind = "gis" /\ dialog.processed
  /\ validateGISData(dialog.csv).success /\ ~Threw(parseGISData(dialog.csv))

\* C17: for every non-empty list of valid GIS records the conversion returns
\* one converted point per record, with the metadata; it raises for the empty
\* list only.
C17_ConvertsEveryList ==
  GisProcessed =>
    /\ dialog.currentData # NoData
    /\ Len(dialog.currentData.converted.poles) = Len(GisRecords)
    /\ DOMAIN dialog.currentData.converted.metadata
         = {"originalBounds", "scaleFactor", "overallBearing", "elevationRange", "sceneSize"}

\* a data row with every required cell well-formed
ValidProfileRow(csv, r) ==
  /\ ~r.blank /\ ~r.short /\ IsNum(r.elevation)
  /\ csv.hasCoordinates => (IsNum(r.x) /\ IsNum(r.y))
ValidGisRow(r) ==
  /\ ~r.blank /\ ~r.short /\ IsNum(r.lat) /\ IsNum(r.lng)
  /\ r.lat >= -90 /\ r.lat <= 90 /\ r.lng >= -180 /\ r.lng <= 180
ValidProfileRows == {i \in 1..Len(dialog.csv.rows) : ValidProfileRow(dialog.csv, dialog.csv.rows[i])}
ValidGisRows == {i \in 1..Len(dialog.csv.rows) : ValidGisRow(dialog.csv.rows[i])}

\* the points of a parsed profile are the rows in Valid, one point each
ExactlyProfileRows(parsed, Valid) ==
  /\ ~Threw(parsed)
  /\ Len(parsed.points) = Cardinality(Valid)
  /\ {parsed.points[k].index + 1 : k \in 1..Len(parsed.points)} = Valid
  /\ \A k \in 1..Len(parsed.points) :
       parsed.points[k].elevation = dialog.csv.rows[parsed.points[k].index + 1].elevation
\* the poles of parsed GIS data are the rows in Valid, one pole each, in order
ExactlyGisRows(parsed, Valid) ==
  /\ ~Threw(parsed)
  /\ Len(parsed.poles) = Cardinality(Valid)
  /\ {parsed.poles[k].originalIndex : k \in 1..Len(parsed.poles)} = Valid
  /\ \A k \in 1..Len(parsed.poles) :
       /\ parsed.poles[k].lat = dialog.csv.rows[parsed.poles[k].originalIndex].lat
       /\ parsed.poles[k].lng = dialog.csv.rows[parsed.poles[k].originalIndex].lng
       /\ k > 1 => parsed.poles[k - 1].originalIndex < parsed.poles[k].originalIndex

SinglePoint ==
  \/ /\ dialog.kind = "profile" /\ dialog.csv.hasElevation
     /\ Cardinality(ValidProfileRows) = 1
  \/ /\ dialog.kind = "gis" /\ dialog.csv.hasLat /\ dialog.csv.hasLng
     /\ Cardinality(ValidGisRows) = 1
\* the Import button has been pressed (the only operation of a dialog that
\* counts as a step)
ImportPressed == steps > 0

EndsAtAttachments(poleA, poleB, d, off, pts) ==
  /\ pts[1].y = NumAdd(poleA.base, poleA.h)
  /\ pts[Len(pts)].y = NumAdd(poleB.base, poleB.h)
  /\ d > 0 =>
       /\ pts[1].x = poleA.x + (-(poleB.z - poleA.z) * off) \div d
       /\ pts[1].z = poleA.z + ((poleB.x - poleA.x) * off) \div d
       /\ pts[Len(pts)].x = poleB.x + (-(poleB.z - poleA.z) * off) \div d
       /\ pts[Len(pts)].z = poleB.z + ((poleB.x - poleA.x) * off) \div d

\* C20: for the two poles of any span, the current tension and each lateral
\* offset, the first and the last point of getConductorCurve are the
\* attachment points of pole A and pole B.
C20_EndpointsAtAttachments ==
  \A i \in 1..Len(spans), c \in 1..3 :
    EndsAtAttachments(heap[spans[i].a], heap[spans[i].b],
                      Hypot(heap[spans[i].b].x - heap[spans[i].a].x,
                            heap[spans[i].b].z - heap[spans[i].a].z),
                      crossarmPositions[c],
                      getConductorCurve(heap[spans[i].a], heap[spans[i].b],
                                        tensionFactor(UIState.currentTension), Samples,
                                        crossarmPositions[c]))

\* tension settings of the URL parameter and the slider, and the magnitude of
\* the midspan sag of the centre conductor under one of them: the straight
\* line's height at t = 1/2 less the middle point of the two-sample curve
SagTensions == {125, 200, 2000, 5000}
MidspanSag(poleA, poleB, currentTension) ==
  Abs(NumSub(heightAt(NumAdd(poleA.base, poleA.h), NumAdd(poleB.base, poleB.h), 0, 1, 2),
             getConductorCurve(poleA, poleB, tensionFactor(currentTension), 2, 0)[2].y))

\* C21: for the two poles of any span and any two tension values t1 < t2,
\* the magnitude of the midspan sag under t2 is strictly smaller than under t1.
C21_TensionReducesSag ==
  \A i \in 1..Len(spans) : \A t1 \in SagTensions, t2 \in SagTensions :
    t1 < t2 =>
      /\ MidspanSag(heap[spans[i].a], heap[spans[i].b], t1) # NaN
      /\ MidspanSag(heap[spans[i].a], heap[spans[i].b], t2)
           < MidspanSag(heap[spans[i].a], heap[spans[i].b], t1)

\* the groups flagged as violating once the threshold slider is set to value,
\* the scene being as it is
ViolatingUnder(value) == clearanceThresholdInput(St, value).flaggedGroups

Returned == solver.pc \in {"return aNew", "return a"}

\* C23: a call of solveCatenaryParameter has no statement that raises, makes
\* at most maxIterations Newton-Raphson updates, returns the last estimate
\* when no update met the convergence test, and always returns.
C23_ReturnsWithinCap ==
  /\ [](/\ solver.pc \in {"loop", "return aNew", "return a"}
        /\ solver.i <= maxIterations
        /\ solver.pc = "return a" => (solver.i = maxIterations /\ solver.result = solver.a)
        /\ solver.pc = "return aNew" => converged(solver.result, solver.a))
  /\ <>Returned

\* a call that used up all its updates without meeting the convergence test
\* and returned its last estimate
C23_Witness ==
  solver.pc = "return a" /\ solver.i = maxIterations /\ solver.result = solver.a

\* the snapshot captureState would take of the current pole list
Snapshot ==
  [i \in 1..Len(poles) |->
     [x |-> heap[poles[i]].x, z |-> heap[poles[i]].z,
      h |-> heap[poles[i]].h, base |-> heap[poles[i]].base]]

\* C25: once an operation that adds, removes, moves or resizes poles has
\* completed (no drag is in progress), the history has a current entry and
\* that entry equals the current pole list.
C25_HistoryIsCurrent ==
  drag.obj = 0 =>
    /\ history.currentIndex >= 0 /\ history.currentIndex < Len(history.states)
    /\ history.states[history.currentIndex + 1] = Snapshot

\* the horizontal lengths of the conductor spans of the challenge scene: the
\* substation to the first pole, the entries of spans, and the last pole to
\* the customer when powered
SceneSpanLengths ==
  (IF Len(poles) > 0
     THEN {Hypot(heap[poles[1]].x - challengeState.substationBuilding.x,
                 heap[poles[1]].z - challengeState.substationBuilding.z)}
     ELSE {})
  \cup {Hypot(heap[spans[i].b].x - heap[spans[i].a].x, heap[spans[i].b].z - heap[spans[i].a].z) :
          i \in 1..Len(spans)}
  \cup (IF Len(poles) > 0 /\ challengeState.isPowered
          THEN {Hypot(heap[poles[Len(poles)]].x - challengeState.customerBuilding.x,
                      heap[poles[Len(poles)]].z - challengeState.customerBuilding.z)}
          ELSE {})

\* the four win conditions of challenge mode
CustomerPowered == challengeState.isPowered
NoSpanTooLong == \A len \in SceneSpanLengths : len # NaN /\ len <= Ft(maxSpanLength)
WithinBudget == UIState.challengeSpent <= Ft(challengeBudget)
NoClearanceViolation ==
  \A i \in 1..Len(lines) : \A c \in LineClearances(i) : c >= UIState.clearanceThreshold

\* C26: in challenge mode Check Solution reports success if and only if the
\* customer is powered, no span exceeds the maximum span length, the amount
\* spent is within the budget and no conductor span of the scene violates the
\* clearance threshold.
C26_SuccessIffWinConditions ==
  (challengeState.active /\ alert.shown) =>
    ((alert.issues = {}) <=>
       (CustomerPowered /\ NoSpanTooLong /\ WithinBudget /\ NoClearanceViolation))

\* the total horizontal length of the entries i..Len(spans) of spans
RECURSIVE SpansLength(_)
SpansLength(i) ==
  IF i > Len(spans) THEN 0
  ELSE NumAdd(Hypot(heap[spans[i].b].x - heap[spans[i].a].x,
                    heap[spans[i].b].z - heap[spans[i].a].z),
              SpansLength(i + 1))

\* the length of the two challenge conductors: the substation to the first
\* pole, and the last pole to the customer when powered
BuildingSpansLength ==
  IF Len(poles) = 0 THEN 0
  ELSE Hypot(heap[poles[1]].x - challengeState.substationBuilding.x,
             heap[poles[1]].z - challengeState.substationBuilding.z)
       + (IF challengeState.isPowered
            THEN Hypot(heap[poles[Len(poles)]].x - challengeState.customerBuilding.x,
                       heap[poles[Len(poles)]].z - challengeState.customerBuilding.z)
            ELSE 0)

\* C27: in challenge mode the amount spent is the fixed cost of each pole plus
\* the cost per foot of the total length of the conductor spans in the scene,
\* the substation's and (when powered) the customer's included.
C27_SpentIsPolesPlusSpans ==
  challengeState.active =>
    UIState.challengeSpent
      = Len(poles) * Ft(costPerPole)
          + costPerFoot * NumAdd(SpansLength(1), BuildingSpansLength)

\* the last pole exists and stands within the connection range of the
\* customer building
LastPoleInRange ==
  /\ Len(poles) > 0
  /\ Hypot(heap[poles[Len(poles)]].x - challengeState.customerBuilding.x,
           heap[poles[Len(poles)]].z - challengeState.customerBuilding.z) <= Ft(connectionRange)

\* C28: in challenge mode, after every pole add, remove, drag step, undo and
\* redo (a step of one of these operations that changes the pole list or a
\* pole; a refused click and an undo with nothing to undo are no operation)
\* the customer is marked powered if and only if a pole exists and the last
\* pole is within the connection range of the customer building.
C28_PoweredIffLastPoleInRange ==
  [][((PoleToolClick \/ EraserClickPole \/ PointerMove \/ PointerUp \/ Undo \/ Redo)
        /\ challengeState.active /\ (poles' # poles \/ heap' # heap))
       => (challengeState.isPowered <=> LastPoleInRange)']_vars

\* the customer marked powered by a second pole, the first being out of range
C28_Witness ==
  /\ challengeState.active /\ challengeState.isPowered
  /\ Len(poles) > 1 /\ LastPoleInRange
  /\ Hypot(heap[poles[1]].x - challengeState.customerBuilding.x,
           heap[poles[1]].z - challengeState.customerBuilding.z) > Ft(connectionRange)

\* C29: opening the URL produced by Copy Link recreates the scene: as many
\* poles, with the same positions, heights and ground elevations, and the
\* same tension and clearance threshold.
C29_LinkRecreatesScene ==
  [][OpenCopiedLink =>
       /\ PoleList(heap', poles') = PoleList(heap, poles)
       /\ UIState'.currentTension = UIState.currentTension
       /\ UIState'.clearanceThreshold = UIState.clearanceThreshold]_vars

\* C30: both endpoints of every entry of spans are pole objects currently
\* contained in poles.
C30_SpanEndpointsArePoles ==
  \A i \in 1..Len(spans) : IsPole(poles, spans[i].a) /\ IsPole(poles, spans[i].b)

\* the position in the pole list of the pole object obj, 0 when it is not there
IndexIn(ps, obj) ==
  IF \E k \in 1..Len(ps) : ps[k] = obj THEN CHOOSE k \in 1..Len(ps) : ps[k] = obj ELSE 0

\* the scene a user sees: the pole list, and for every span the two poles of
\* the list it connects
SceneOf(st) ==
  [poles |-> PoleList(st.heap, st.poles),
   spans |-> [i \in 1..Len(st.spans) |->
                <<IndexIn(st.poles, st.spans[i].a), IndexIn(st.poles, st.spans[i].b)>>]]

\* a pole add or remove, or a span add or remove, that captured a snapshot (a
\* drag takes several steps, and the scene before it is not the scene before
\* its last step)
CapturingOperation ==
  /\ PoleToolClick \/ EraserClickPole \/ ConductorToolClick \/ EraserClickSpan
  /\ history' # history

\* C31: after an operation that captures history (pole add or remove; span
\* add or remove) undo is available, and invoking it restores the
\* scene's poles and spans to what they were immediately before the operation.
C31_UndoRestoresPrevious ==
  [][CapturingOperation => (canUndo(history') /\ SceneOf(undo(St')) = SceneOf(St))]_vars

\* C32: whenever a conductor start pole is selected, it is a pole currently
\* contained in poles and the conductor tool is active.
C32_StartPoleIsLivePole ==
  UIState.conductorStartPole # 0 =>
    IsPole(poles, UIState.conductorStartPole) /\ UIState.conductorToolActive

\* a pole already stands at (x, z)
Occupied(x, z) == \E i \in 1..Len(poles) : heap[poles[i]].x = x /\ heap[poles[i]].z = z

\* a click of the pole tool whose placement addPole refuses
BlockedClick ==
  \E hit \in Hits :
    /\ drag.obj = 0 /\ UIState.poleToolActive /\ OnTerrain(terrain, hit)
    /\ Occupied(SNAP(hit.x), SNAP(hit.z)) \/ spanTooLong(St, SNAP(hit.x), SNAP(hit.z))
    /\ Becomes(handleToolClick(St, [x |-> SNAP(hit.x), z |-> SNAP(hit.z)], 0, 0), "none")

\* C33: a click whose pole placement is blocked (position occupied, or in
\* challenge mode the span from the previous pole or substation too long)
\* adds no pole and no span and leaves the undo history as it was.
C33_BlockedClickChangesNothing ==
  [][BlockedClick => (poles' = poles /\ heap' = heap /\ spans' = spans /\ history' = history)]_vars

\* an import for which importScene reports an error
FailedImport ==
  \/ \E file \in HandWrittenFiles :
       /\ importReportsError(St, file) /\ drag.obj = 0
       /\ Becomes(importScene(St, file), "customGround")
  \/ download # NoFile /\ importReportsError(St, download) /\ ImportDownload

\* C34: if importScene reports an error for a file, the poles, the spans, the
\* active elevation surface and the undo history are as before the attempt.
C34_FailedImportChangesNothing ==
  [][FailedImport =>
       /\ PoleList(heap', poles') = PoleList(heap, poles)
       /\ spans' = spans
       /\ customGround' = customGround /\ gisElevationSurface' = gisElevationSurface
       /\ history' = history]_vars

\* a Ctrl+Z key press while something can be undone
UndoKeyPressed == canUndo(history) /\ UndoKey

\* a Ctrl+Y (or Ctrl+Shift+Z) key press while something can be redone
RedoKeyPressed == canRedo(history) /\ RedoKey

\* C35: a single Ctrl+Z key press moves the undo history back by exactly one
\* step, and a single Ctrl+Y key press moves it forward by exactly one step.
C35_KeyMovesOneStep ==
  [][/\ UndoKeyPressed => history' = [history EXCEPT !.currentIndex = @ - 1]
     /\ RedoKeyPressed => history' = [history EXCEPT !.currentIndex = @ + 1]]_vars

\* Reset Level has been triggered and the application has left challenge mode
ResetTriggered == timer > 0 /\ ~challengeState.active

\* challenge mode with no poles, no spans and a history holding only the
\* initial empty state
ChallengeFresh ==
  /\ challengeState.active /\ poles = <<>> /\ spans = <<>>
  /\ history = [states |-> <<<<>>>>, currentIndex |-> 0]

SameSceneIn(st) == SceneOf(st) = SceneOf(St) /\ st.history = history

\* C37: undo immediately followed by redo leaves the scene as it was before
\* the undo: the same poles, the same spans connecting the same poles, and
\* the same history position.
C37_UndoRedoRestores == [][Undo => SameSceneIn(redo(St'))]_vars

\* some tool is active
SomeToolActive ==
  UIState.poleToolActive \/ UIState.conductorToolActive
    \/ UIState.inspectToolActive \/ UIState.eraserToolActive

\* C38 as stated: after any sequence of tool-button clicks and keyboard
\* shortcuts (P, C, I, E, Escape) at least one of the pole, conductor,
\* inspect and eraser tools is active.
C38_SomeToolActive == SomeToolActive

\* C38, amended: after a tool-button click or a P, C, I or E shortcut at least
\* one of the four tools is active; Escape deactivates all of them.
C38_ClickLeavesToolActive ==
  [][(ToolPanelClick => SomeToolActive') /\ (EscapeKey => ~SomeToolActive')]_vars

\* the inspect tool switched on by a click, which no other operation does
C38_Witness == steps > 1 /\ UIState.inspectToolActive /\ ~UIState.poleToolActive

\* C39: the eraser and inspect tools are never both active, and neither is
\* active at the same time as the pole tool or the conductor tool.
C39_ExclusiveTools ==
  /\ ~(UIState.eraserToolActive /\ UIState.inspectToolActive)
  /\ (UIState.eraserToolActive \/ UIState.inspectToolActive)
       => (~UIState.poleToolActive /\ ~UIState.conductorToolActive)

\* the eraser active alone after the pole and conductor tools were
C39_Witness ==
  /\ steps > 0 /\ UIState.eraserToolActive
  /\ ~UIState.poleToolActive /\ ~UIState.conductorToolActive /\ ~UIState.inspectToolActive

\* currentIndex is a valid index into states, or -1 exactly when it is empty
\* (the first state has index 0)
ValidIndex ==
  IF history.states = <<>> THEN history.currentIndex = -1
  ELSE history.currentIndex >= 0 /\ history.currentIndex < Len(history.states)

\* C40: at all times the undo history holds at most maxSize states and
\* currentIndex is a valid index into it, or -1 exactly when it is empty;
\* immediately after captureState, currentIndex points at the last state, so
\* that redo is unavailable.
C40_HistoryWellFormed ==
  /\ [](Len(history.states) <= maxSize /\ ValidIndex)
  /\ [][ReleasePole
          => (history'.currentIndex = Len(history'.states) - 1 /\ ~canRedo(history'))]_vars

\* the history full, with a state to redo
C40_Witness ==
  Len(history.states) = maxSize /\ history.currentIndex = maxSize - 2

====
